---- MODULE Spec2Model ----
(***************************************************************************)
(* Model of the aries-chat server: the socket.io message handlers          *)
(* (services/socketService), the Message / Conversation / AutoMessage      *)
(* stores, the REST routes that write messages, and the automated message  *)
(* pipeline (cron planner and queuer, RabbitMQ consumer).                  *)
(*                                                                         *)
(* Store semantics.  Every handler awaits the database between its steps,  *)
(* so handlers of different connections interleave at each await.  A       *)
(* Mongo update (updateMany, insert) is atomic per document.  A mongoose   *)
(* doc.save() of a loaded document writes only the paths modified on that  *)
(* copy: a scalar as $set, an array push as $push of the new element.      *)
(***************************************************************************)
EXTENDS Integers, Sequences, FiniteSets, TLC

VARIABLES
    now,            \* wall clock, in units of one hour
    conversations,  \* Conversation collection: id (index) -> document
    messages,       \* Message collection: _id (index) -> document
    convSaves,      \* per conversation: number of lastMessage/lastActivity saves
    deletes,        \* delete handlers between their find and their save
    out,            \* events emitted by the last step, in emission order
    autoMessages,   \* AutoMessage collection: id (index) -> document
    queue,          \* message_sending_queue: work items (AutoMessage ids)
    published,      \* AutoMessage ids for which sendToQueue succeeded
    scans,           \* queuer scans in progress: the pendingMessages still to do
    consumers,      \* consumer callbacks in flight, one per delivered item
    sockets,        \* live socket.io connections: <<user, session>>
    rooms,          \* conversation rooms: <<connection, conversation>>
    creates,        \* POST /conversation/create requests between their
                    \* findOne and their save
    online,         \* Redis set online_users: user ids
    clients         \* browser clients (public/js/app.js), per connection

vars == <<now, conversations, messages, convSaves, deletes, out,
          autoMessages, queue, published, scans, consumers,
          sockets, rooms, creates, online, clients>>

chatVars == <<conversations, messages, convSaves, deletes>>
pipeVars == <<autoMessages, queue, published, scans, consumers>>
netVars == <<sockets, rooms>>

----------------------------------------------------------------------------
(* Bounds of the model *)

MaxMessages == 2    \* messages ever persisted
MaxTime     == 2    \* clock ticks
MaxInflight == 2    \* delete handlers in flight at once
MaxAuto     == 2    \* AutoMessages ever planned
MaxConsumers == 2   \* consumer callbacks in flight at once
MaxConversations == 4   \* conversations ever created
MaxScans == 2       \* queuer scans in flight at once

(* Program constants *)

Hour == 1           \* 60 * 60 * 1000 ms, in clock units
Day  == 24          \* 24 * 60 * 60 * 1000 ms, in clock units

Users    == {"u1", "u2", "u3"}
Sessions == {"s1", "s2"}
NoSession == ""                 \* a payload without sessionId

ClientKeys == {1, 2}            \* client-chosen idempotency keys
NoKey == 0                      \* a payload without messageId
KeyInputs == ClientKeys \cup {NoKey}

Contents == {"", " ", "hi"}

----------------------------------------------------------------------------
(* Helpers *)

Range(s) == {s[i] : i \in DOMAIN s}

\* String.prototype.trim on the contents the model sends
\* The content as it came
TrimNothing(s) == s

Trim(s) == IF s = " " THEN "" ELSE s

\* crypto.randomUUID(): a key no client key and no other message has
RandomUUID(id) == 0 - id

ReadUsers(m) == {m.readBy[i].user : i \in DOMAIN m.readBy}
DeletedForUsers(m) == {m.deletedFor[i].user : i \in DOMAIN m.deletedFor}

MsgIds == DOMAIN messages
ConvIds == DOMAIN conversations

\* The lookup without the participants condition
ConversationFindOneAnyUser(c, u) == c \in ConvIds

\* Conversation.findOne({_id: c, participants: u})
ConversationFindOne(c, u) ==
    c \in ConvIds /\ u \in conversations[c].participants

\* messageSchema.virtual('isDeletedForUser')
isDeletedForUser(m, u) == m.isDeleted \/ u \in DeletedForUsers(m)

\* The count without the 'deletedFor.user' condition
CountUnreadWithHidden(msgs, s, c, v) ==
    Cardinality({i \in DOMAIN msgs :
        /\ msgs[i].sender = s
        /\ msgs[i].conversation = c
        /\ v \notin ReadUsers(msgs[i])
        /\ ~msgs[i].isDeleted})

\* Message.countDocuments({sender, conversation, 'readBy.user': {$ne: v},
\*                         isDeleted: false, 'deletedFor.user': {$ne: v}})
CountUnread(msgs, s, c, v) ==
    Cardinality({i \in DOMAIN msgs :
        /\ msgs[i].sender = s
        /\ msgs[i].conversation = c
        /\ v \notin ReadUsers(msgs[i])
        /\ ~msgs[i].isDeleted
        /\ v \notin DeletedForUsers(msgs[i])})

\* messageSchema.statics.getUnreadCount(conversationId, userId)
getUnreadCount(msgs, c, v) ==
    Cardinality({i \in DOMAIN msgs :
        /\ msgs[i].conversation = c
        /\ msgs[i].sender # v
        /\ v \notin ReadUsers(msgs[i])
        /\ ~msgs[i].isDeleted
        /\ v \notin DeletedForUsers(msgs[i])})

\* An emitted event: name, target (kind of room / socket), payload
Ev(ev, kind, user, sess, conv, mid, text, n) ==
    [ev |-> ev, kind |-> kind, user |-> user, sess |-> sess,
     conv |-> conv, mid |-> mid, text |-> text, n |-> n]

\* socket.emit('error', {message})
ErrorEv(u, sess, text) == Ev("error", "socket", u, sess, 0, 0, text, 0)

\* A sequence enumerating a finite set of message ids in ascending order
RECURSIVE SortedSeq(_)
SortedSeq(S) ==
    IF S = {} THEN <<>>
    ELSE LET x == CHOOSE y \in S : \A z \in S : y <= z
         IN <<x>> \o SortedSeq(S \ {x})

\* A sequence enumerating a finite set of users
RECURSIVE UserSeq(_)
UserSeq(S) ==
    IF S = {} THEN <<>>
    ELSE LET x == CHOOSE y \in S : TRUE
         IN <<x>> \o UserSeq(S \ {x})

----------------------------------------------------------------------------
(* Initial state: two private conversations, no messages *)

NewConversation(ps) ==
    [participants |-> ps, type |-> "private", lastMessage |-> 0,
     lastActivity |-> 0, isActive |-> TRUE]

\* Connections of the model: u1 is connected from two sessions
Conns == { <<"u1", "s1">>, <<"u1", "s2">>, <<"u2", "s1">>, <<"u3", "s1">> }

\* userConversations.forEach(conv => socket.join(`conversation_${conv._id}`))
\* of the connection handler: the rooms a connecting socket joins
ConnectRooms(cn, convs) ==
    { <<cn, c>> : c \in {k \in DOMAIN convs : cn[1] \in convs[k].participants} }

\* The server is up, two conversations exist and every connection of the
\* model has connected
\* The connections whose browser client is modelled: two sessions of u1
\* and one of u2
ClientConns == { <<"u1", "s1">>, <<"u1", "s2">>, <<"u2", "s1">> }

\* The client after login with conversation 1 open and nothing listed:
\* this.messages, this.messageDeduplication, the events the socket has
\* delivered and no handler has run for yet, the send promises, the
\* send_message payloads emitted and not yet taken up by the server, and the
\* markMessagesAsRead calls in progress
NewClient ==
    [currentConversation |-> 1, messages |-> <<>>,
     messageDeduplication |-> {}, inbox |-> <<>>, sends |-> {},
     emitted |-> {}, reads |-> {}, redelivered |-> 0]

Init ==
    /\ now = 0
    /\ conversations = << NewConversation({"u1", "u2"}),
                          NewConversation({"u1", "u3"}) >>
    /\ messages = <<>>
    /\ convSaves = <<0, 0>>
    /\ deletes = {}
    /\ out = <<>>
    /\ autoMessages = <<>>
    /\ queue = <<>>
    /\ published = {}
    /\ scans = <<>>
    /\ consumers = <<>>
    /\ creates = {}
    /\ online = {cn[1] : cn \in Conns}
    /\ clients = [cn \in ClientConns |-> NewClient]
    /\ sockets = Conns
    /\ rooms = UNION { ConnectRooms(cn, << NewConversation({"u1", "u2"}),
                                           NewConversation({"u1", "u3"}) >>)
                       : cn \in Conns }

----------------------------------------------------------------------------
(* send_message (socket).  A connection is (u, cs): the authenticated user *)
(* and the session id of its handshake; sess is the payload's sessionId.   *)

\* new Message(messageData) as saved by the handler
NewMessage(u, sess, c, content, key, id) ==
    [sender |-> u, conversation |-> c, content |-> Trim(content),
     messageId |-> IF key # NoKey THEN key ELSE RandomUUID(id),
     sessionId |-> sess,
     readBy |-> <<>>, deletedFor |-> <<>>, isDeleted |-> FALSE,
     deliveryStatus |-> "sent", createdAt |-> now, stage |-> "link",
     autoMessage |-> 0, type |-> "text", fileSize |-> 0]

\* No unique index on messageId, every insert succeeds
DuplicateKeyNoIndex(msgs, key) == FALSE

\* The unique sparse index on messageId: an insert with a stored key throws
DuplicateKey(msgs, key) ==
    key # NoKey /\ \E i \in DOMAIN msgs : msgs[i].messageId = key

\* The handler up to and including `await newMessage.save()`
SendMessageHandler(u, cs, sess, c, content, key) ==
    /\ UNCHANGED <<now, netVars, creates, online, conversations, convSaves, deletes, pipeVars>>
    /\ IF sess = NoSession
       THEN /\ out' = <<ErrorEv(u, cs, "Session ID required")>>
            /\ UNCHANGED messages
       ELSE IF ~ConversationFindOne(c, u)
       THEN /\ out' = <<ErrorEv(u, cs, "Conversation not found")>>
            /\ UNCHANGED messages
       ELSE IF Trim(content) = ""
       THEN /\ out' = <<ErrorEv(u, cs, "Message content or file required")>>
            /\ UNCHANGED messages
       ELSE IF DuplicateKey(messages, key)
       THEN /\ out' = <<ErrorEv(u, cs, "Error sending message")>>
            /\ UNCHANGED messages
       ELSE /\ Len(messages) < MaxMessages
            /\ messages' = Append(messages,
                   NewMessage(u, sess, c, content, key, Len(messages) + 1))
            /\ out' = <<>>

\* send_message of a connection whose client the model leaves alone
SendMessage(u, cs, sess, c, content, key) ==
    SendMessageHandler(u, cs, sess, c, content, key) /\ UNCHANGED clients

\* conversation.lastMessage / lastActivity, conversation.save(), then the
\* message_received fan-out and the message_sent acknowledgement
SendLinkHandler(id) ==
    /\ id \in MsgIds
    /\ messages[id].stage = "link"
    /\ LET m == messages[id]
           c == m.conversation
       IN /\ conversations' = [conversations EXCEPT
                 ![c].lastMessage = id, ![c].lastActivity = now]
          /\ convSaves' = [convSaves EXCEPT ![c] = @ + 1]
          /\ messages' = [messages EXCEPT ![id].stage = "timer"]
          /\ out' = << Ev("message_received", "conv", "", "", c, id, "", 0),
                       Ev("message_sent", "socket", m.sender, m.sessionId,
                          c, id, "sent",
                          IF m.messageId > 0 THEN m.messageId ELSE id) >>
    /\ UNCHANGED <<now, netVars, creates, online, deletes, pipeVars>>

\* The link and fan-out, the events reaching no modelled client
SendLink(id) ==
    SendLinkHandler(id) /\ UNCHANGED clients

\* The unread_count_updated events of the delivery timer, one per other
\* participant
UnreadEvents(msgs, s, c, others) ==
    [i \in DOMAIN others |->
        Ev("unread_count_updated", "user", others[i], "", c, 0, s,
           CountUnread(msgs, s, c, others[i]))]

\* The timer's save leaves the stored status as it is
TimerStatusKeepsStored(stored) == stored

\* The status the timer's savedMessage.save() leaves stored: the callback
\* assigns 'delivered' on its own copy and save() writes that path
TimerStatus(stored) == "delivered"

\* The setTimeout callback of send_message
DeliveryTimer(id) ==
    /\ id \in MsgIds
    /\ messages[id].stage = "timer"
    /\ LET m == messages[id]
           c == m.conversation
           others == UserSeq(conversations[c].participants \ {m.sender})
       IN /\ messages' = [messages EXCEPT
                 ![id].deliveryStatus = TimerStatus(@),
                 ![id].stage = "done"]
          /\ out' = << Ev("message_delivered", "socket", m.sender,
                          m.sessionId, c, id, "delivered", m.messageId) >>
                    \o UnreadEvents(messages', m.sender, c, others)
    /\ UNCHANGED <<now, netVars, creates, online, clients, conversations, convSaves, deletes, pipeVars>>

----------------------------------------------------------------------------
(* Read marking *)

\* {$push: {readBy: {user, readAt: new Date(), sessionId}},
\*  $set: {'metadata.deliveryStatus': 'read'}} on one document
PushRead(m, u, sess) ==
    [m EXCEPT !.readBy = Append(@, [user |-> u, readAt |-> now,
                                    sessionId |-> sess]),
              !.deliveryStatus = "read"]

\* The filter without 'deletedFor.user': {$ne: user}
SocketReadFilterNoDeletedFor(m, id, S, c, u) ==
    /\ id \in S
    /\ m.conversation = c
    /\ u \notin {m.readBy[i].user : i \in DOMAIN m.readBy}
    /\ ~m.isDeleted

\* The filter of the socket handler's Message.updateMany
SocketReadFilter(m, id, S, c, u) ==
    /\ id \in S
    /\ m.conversation = c
    /\ u \notin ReadUsers(m)
    /\ ~m.isDeleted
    /\ u \notin DeletedForUsers(m)

\* message_read_receipt: one per message of S in c whose sender is not u
ReceiptEvents(msgs, ids, c, u) ==
    [i \in DOMAIN ids |->
        Ev("message_read_receipt", "user", msgs[ids[i]].sender, "", c,
           ids[i], u, 0)]

\* unread_count_updated to the caller's socket, one per distinct sender
CallerUnreadEvents(msgs, senders, c, u, cs) ==
    [i \in DOMAIN senders |->
        Ev("unread_count_updated", "socket", u, cs, c, 0, senders[i],
           CountUnread(msgs, senders[i], c, u))]

\* mark_messages_read (socket)
\* The side effects run whatever the update modified
EmitsReadEventsAlways(modifiedCount) == TRUE

\* if (result.modifiedCount > 0)
EmitsReadEvents(modifiedCount) == modifiedCount > 0

MarkMessagesReadHandler(u, cs, sess, c, S) ==
    /\ UNCHANGED <<now, netVars, creates, online, conversations, convSaves, deletes, pipeVars>>
    /\ IF sess = NoSession \/ ~ConversationFindOne(c, u)
       THEN /\ out' = <<>>
            /\ UNCHANGED messages
       ELSE LET matched == {i \in MsgIds :
                               SocketReadFilter(messages[i], i, S, c, u)}
                readMessages == {i \in S \cap MsgIds :
                                    messages[i].conversation = c}
                others == {i \in readMessages : messages[i].sender # u}
                senders == {messages[i].sender : i \in others}
            IN /\ messages' = [i \in MsgIds |->
                      IF i \in matched THEN PushRead(messages[i], u, sess)
                                       ELSE messages[i]]
               /\ out' = IF ~EmitsReadEvents(Cardinality(matched)) THEN <<>>
                         ELSE << Ev("messages_read", "convExcept", u, cs, c,
                                    0, sess, Cardinality(S)) >>
                              \o ReceiptEvents(messages', SortedSeq(others), c, u)
                              \o CallerUnreadEvents(messages', UserSeq(senders),
                                                    c, u, cs)

\* mark_messages_read of a connection whose client the model leaves alone
MarkMessagesRead(u, cs, sess, c, S) ==
    MarkMessagesReadHandler(u, cs, sess, c, S) /\ UNCHANGED clients

\* An HTTP response: status code and message
Http(u, sess, c, status, text) ==
    Ev("http", "rest", u, sess, c, 0, text, status)

\* The filter without 'readBy.user': {$ne: user}
RestReadFilterNoNe(m, id, accessible, u) == id \in accessible

\* The filter of PUT /api/message/read's Message.updateMany
RestReadFilter(m, id, accessible, u) ==
    /\ id \in accessible
    /\ u \notin ReadUsers(m)

\* PUT /api/message/read
RestMarkReadHandler(u, sess, S) ==
    /\ UNCHANGED <<now, netVars, creates, online, conversations, convSaves, deletes, pipeVars>>
    /\ LET accessible == {i \in S \cap MsgIds :
               u \in conversations[messages[i].conversation].participants}
           matched == {i \in MsgIds :
               RestReadFilter(messages[i], i, accessible, u)}
       IN IF sess = NoSession
          THEN /\ out' = <<Http(u, sess, 0, 401, "Session ID required.")>>
               /\ UNCHANGED messages
          ELSE IF S = {}
          THEN /\ out' = <<Http(u, sess, 0, 400, "Validation failed")>>
               /\ UNCHANGED messages
          ELSE IF accessible = {}
          THEN /\ out' = <<Http(u, sess, 0, 404,
                                "No accessible messages found")>>
               /\ UNCHANGED messages
          ELSE /\ messages' = [i \in MsgIds |->
                      IF i \in matched THEN PushRead(messages[i], u, sess)
                                       ELSE messages[i]]
               /\ out' = <<Http(u, sess, 0, 200, "Messages marked as read")>>

\* PUT /api/message/read of a caller whose client the model leaves alone
RestMarkRead(u, sess, S) ==
    RestMarkReadHandler(u, sess, S) /\ UNCHANGED clients

\* Conversation.findOne({_id: c, participants: u, isActive: true})
ActiveConversationFindOne(c, u) ==
    ConversationFindOne(c, u) /\ conversations[c].isActive

\* The filter of PUT /api/conversation/:id/mark-read's Message.updateMany
ConvReadFilter(m, c, u) ==
    /\ m.conversation = c
    /\ m.sender # u
    /\ u \notin ReadUsers(m)
    /\ ~m.isDeleted

\* PUT /api/conversation/:id/mark-read
RestConversationMarkRead(u, sess, c) ==
    /\ UNCHANGED <<now, netVars, creates, online, clients, conversations, convSaves, deletes, pipeVars>>
    /\ IF sess = NoSession
       THEN /\ out' = <<Http(u, sess, c, 401, "Session ID required.")>>
            /\ UNCHANGED messages
       ELSE IF ~ActiveConversationFindOne(c, u)
       THEN /\ out' = <<Http(u, sess, c, 404, "Conversation not found")>>
            /\ UNCHANGED messages
       ELSE /\ messages' = [i \in MsgIds |->
                   IF ConvReadFilter(messages[i], c, u)
                   THEN PushRead(messages[i], u, sess)
                   ELSE messages[i]]
            /\ out' = <<Http(u, sess, c, 200, "All messages marked as read")>>

----------------------------------------------------------------------------
(* Deletion.  A delete handler loads the message (findById), decides and   *)
(* changes its own copy, and then awaits message.save(): between the two   *)
(* the handler is in `deletes` and other handlers run.                     *)

MsgIdInputs == 1..MaxMessages   \* ids a client may name, stored or not

\* The window test with <= in place of <
OutsideWindowInclusive(m) == m.createdAt <= now - Hour

\* new Date(Date.now() - 60 * 60 * 1000); message.createdAt < oneHourAgo
OutsideWindow(m) == m.createdAt < now - Hour

\* deleteForUser(userId, 'forMe') on a loaded copy: this.deletedFor.find(...)
existingDelete(m, u) == u \in DeletedForUsers(m)

\* deletedFor.push(...) whatever existingDelete is
PushesEntryAlways(existing) == TRUE

\* if (!existingDelete) this.deletedFor.push(...)
PushesEntry(existing) == ~existing

\* A handler between its findById and its message.save(): `existing` is
\* existingDelete on the copy it loaded
DeleteTask(u, sess, via, dtype, mid, existing, c) ==
    [user |-> u, sess |-> sess, via |-> via, dtype |-> dtype, mid |-> mid,
     existing |-> existing, conv |-> c, todo |-> <<>>, done |-> <<>>,
     total |-> 0]

\* One handler in flight per connection, MaxInflight in all
CanStart(u, sess) ==
    /\ Cardinality(deletes) < MaxInflight
    /\ ~\E t \in deletes : t.user = u /\ t.sess = sess

\* delete_message (socket), up to the call of message.deleteForUser
DeleteMessage(u, cs, id, dtype, c) ==
    /\ UNCHANGED <<now, netVars, creates, online, clients, conversations, messages, convSaves, pipeVars>>
    /\ IF id \notin MsgIds
       THEN /\ out' = <<ErrorEv(u, cs, "Message not found")>>
            /\ UNCHANGED deletes
       ELSE IF u \notin conversations[messages[id].conversation].participants
       THEN /\ out' = <<ErrorEv(u, cs, "Access denied")>>
            /\ UNCHANGED deletes
       ELSE IF dtype = "forEveryone" /\ messages[id].sender # u
       THEN /\ out' = <<ErrorEv(u, cs, "Only sender can delete for everyone")>>
            /\ UNCHANGED deletes
       ELSE IF dtype = "forEveryone" /\ OutsideWindow(messages[id])
       THEN /\ out' = <<ErrorEv(u, cs,
                "Message can only be deleted for everyone within 1 hour")>>
            /\ UNCHANGED deletes
       ELSE /\ CanStart(u, cs)
            /\ deletes' = deletes \cup
                   {DeleteTask(u, cs, "socket", dtype, id,
                               dtype = "forMe" /\
                                   existingDelete(messages[id], u), c)}
            /\ out' = <<>>

\* DELETE /api/message/:messageId/for-me, up to message.deleteForUser
RestDeleteForMe(u, sess, id) ==
    /\ UNCHANGED <<now, netVars, creates, online, clients, conversations, messages, convSaves, pipeVars>>
    /\ IF sess = NoSession
       THEN /\ out' = <<Http(u, sess, 0, 401, "Session ID required.")>>
            /\ UNCHANGED deletes
       ELSE IF id \notin MsgIds
       THEN /\ out' = <<Http(u, sess, 0, 404, "Message not found")>>
            /\ UNCHANGED deletes
       ELSE IF u \notin conversations[messages[id].conversation].participants
       THEN /\ out' = <<Http(u, sess, 0, 403, "Access denied")>>
            /\ UNCHANGED deletes
       ELSE /\ CanStart(u, sess)
            /\ deletes' = deletes \cup
                   {DeleteTask(u, sess, "rest", "forMe", id,
                               existingDelete(messages[id], u),
                               messages[id].conversation)}
            /\ out' = <<>>

\* DELETE /api/message/:messageId/for-everyone, up to message.deleteForUser
RestDeleteForEveryone(u, sess, id) ==
    /\ UNCHANGED <<now, netVars, creates, online, clients, conversations, messages, convSaves, pipeVars>>
    /\ IF sess = NoSession
       THEN /\ out' = <<Http(u, sess, 0, 401, "Session ID required.")>>
            /\ UNCHANGED deletes
       ELSE IF id \notin MsgIds
       THEN /\ out' = <<Http(u, sess, 0, 404, "Message not found")>>
            /\ UNCHANGED deletes
       ELSE IF messages[id].sender # u
       THEN /\ out' = <<Http(u, sess, 0, 403,
                "Only sender can delete message for everyone")>>
            /\ UNCHANGED deletes
       ELSE IF OutsideWindow(messages[id])
       THEN /\ out' = <<Http(u, sess, 0, 400,
                "Message can only be deleted for everyone within 1 hour of sending")>>
            /\ UNCHANGED deletes
       ELSE /\ CanStart(u, sess)
            /\ deletes' = deletes \cup
                   {DeleteTask(u, sess, "rest", "forEveryone", id, FALSE,
                               messages[id].conversation)}
            /\ out' = <<>>

\* What message.save() writes after deleteForUser changed the loaded copy:
\* isDeleted as $set, the pushed deletedFor entry as $push
SaveDeleted(m, t) ==
    IF t.dtype = "forEveryone"
    THEN [m EXCEPT !.isDeleted = TRUE]
    ELSE IF PushesEntry(t.existing)
    THEN [m EXCEPT !.deletedFor =
             Append(@, [user |-> t.user, deleteType |-> "forMe"])]
    ELSE m

\* The save of a delete_message / REST delete handler, and its reply
DeleteSave(t) ==
    /\ t \in deletes
    /\ t.via # "bulk"
    /\ messages' = [messages EXCEPT ![t.mid] = SaveDeleted(@, t)]
    /\ deletes' = deletes \ {t}
    /\ out' = IF t.via = "rest"
              THEN <<Http(t.user, t.sess, 0, 200,
                          IF t.dtype = "forEveryone"
                          THEN "Message deleted for everyone"
                          ELSE "Message deleted for you")>>
              ELSE IF t.dtype = "forEveryone"
              THEN <<Ev("message_deleted_for_everyone", "conv", t.user, "",
                        t.conv, t.mid, "", 0)>>
              ELSE <<Ev("message_deleted_for_me", "socket", t.user, t.sess,
                        0, t.mid, "", 0)>>
    /\ UNCHANGED <<now, netVars, creates, online, clients, conversations, convSaves, pipeVars>>

\* delete_multiple_messages (socket), up to the loop over messageIds
DeleteMultiple(u, cs, ids, c) ==
    /\ UNCHANGED <<now, netVars, creates, online, clients, conversations, messages, convSaves, pipeVars>>
    /\ IF ids = <<>>
       THEN /\ out' = <<ErrorEv(u, cs, "Invalid message IDs")>>
            /\ UNCHANGED deletes
       ELSE IF ~ConversationFindOne(c, u)
       THEN /\ out' = <<ErrorEv(u, cs, "Conversation not found")>>
            /\ UNCHANGED deletes
       ELSE /\ CanStart(u, cs)
            /\ deletes' = deletes \cup
                   {[user |-> u, sess |-> cs, via |-> "bulk",
                     dtype |-> "forMe", mid |-> 0, existing |-> FALSE,
                     conv |-> c,
                     todo |-> ids, done |-> <<>>, total |-> Len(ids)]}
            /\ out' = <<>>

\* The loop takes any stored message, of whatever conversation
BulkMatchesAnyConversation(msgs, id, c) == id \in DOMAIN msgs

\* if (message && message.conversation.toString() === conversationId);
\* an id that is no ObjectId makes findById throw, which the loop catches
BulkMatches(msgs, id, c) == id \in DOMAIN msgs /\ msgs[id].conversation = c

\* One pass of the loop up to deleteForUser: Message.findById(messageId) and
\* the conversation test; an id that fails them is skipped
BulkFind(t) ==
    /\ t \in deletes
    /\ t.via = "bulk" /\ t.mid = 0 /\ t.todo # <<>>
    /\ LET id == Head(t.todo)
           ok == BulkMatches(messages, id, t.conv)
       IN deletes' = (deletes \ {t}) \cup
              {IF ok THEN [t EXCEPT !.mid = id,
                                    !.existing =
                                        existingDelete(messages[id], t.user)]
                     ELSE [t EXCEPT !.todo = Tail(@)]}
    /\ out' = <<>>
    /\ UNCHANGED <<now, netVars, creates, online, clients, conversations, messages, convSaves, pipeVars>>

\* The save of that pass: deletedCount++, deletedMessageIds.push
BulkSave(t) ==
    /\ t \in deletes
    /\ t.via = "bulk" /\ t.mid # 0
    /\ messages' = [messages EXCEPT ![t.mid] = SaveDeleted(@, t)]
    /\ deletes' = (deletes \ {t}) \cup
           {[t EXCEPT !.mid = 0, !.existing = FALSE, !.todo = Tail(@),
                      !.done = Append(@, t.mid)]}
    /\ out' = <<>>
    /\ UNCHANGED <<now, netVars, creates, online, clients, conversations, convSaves, pipeVars>>

\* After the loop: multiple_messages_deleted to the caller
BulkFinish(t) ==
    /\ t \in deletes
    /\ t.via = "bulk" /\ t.mid = 0 /\ t.todo = <<>>
    /\ deletes' = deletes \ {t}
    /\ out' = <<Ev("multiple_messages_deleted", "socket", t.user, t.sess,
                   t.conv, t.total, "", Len(t.done))>>
    /\ UNCHANGED <<now, netVars, creates, online, clients, conversations, messages, convSaves, pipeVars>>

\* The filter of DELETE /api/conversation/:id's Message.updateMany
ConvDeleteFilter(m, c, u) ==
    /\ m.conversation = c
    /\ (m.sender = u \/ u \in ReadUsers(m))

\* DELETE /api/conversation/:id on a private conversation
RestDeleteConversation(u, sess, c) ==
    /\ UNCHANGED <<now, netVars, creates, online, clients, convSaves, deletes, pipeVars>>
    /\ IF sess = NoSession
       THEN /\ out' = <<Http(u, sess, c, 401, "Session ID required.")>>
            /\ UNCHANGED <<conversations, messages>>
       ELSE IF ~ActiveConversationFindOne(c, u)
       THEN /\ out' = <<Http(u, sess, c, 404, "Conversation not found")>>
            /\ UNCHANGED <<conversations, messages>>
       ELSE /\ conversations' = [conversations EXCEPT ![c].isActive = FALSE]
            /\ messages' = [i \in MsgIds |->
                   IF ConvDeleteFilter(messages[i], c, u)
                   THEN [messages[i] EXCEPT !.isDeleted = TRUE]
                   ELSE messages[i]]
            /\ out' = << Ev("conversation_deleted", "conv", u, "", c, 0,
                            "private", 0),
                         Http(u, sess, c, 200, "Conversation deleted successfully") >>

----------------------------------------------------------------------------
(* The clock *)

Tick ==
    /\ now < MaxTime
    /\ now' = now + 1
    /\ out' = <<>>
    /\ UNCHANGED <<chatVars, pipeVars, netVars, creates, online, clients>>

----------------------------------------------------------------------------
(* Automated message pipeline: planner and queuer (cron), consumer *)

ActiveUsers == Users            \* User.find({isActive: true})

\* The user accounts a planner run may find active
Accounts == Users \cup {"u4"}

\* shuffleArray: any order of the users
Shuffles(S) ==
    {sh \in [1..Cardinality(S) -> S] :
        \A a, b \in 1..Cardinality(S) : a # b => sh[a] # sh[b]}

\* The pairing loop stepping by one: (s[0], s[1]), (s[1], s[2]), ...
PairsOverlapping(sh) == [k \in 1..(Len(sh) - 1) |-> <<sh[k], sh[k + 1]>>]

\* The pairing loop: (s[0], s[1]), (s[2], s[3]), ...; an odd last one is dropped
Pairs(sh) == [k \in 1..(Len(sh) \div 2) |-> <<sh[2 * k - 1], sh[2 * k]>>]

\* Date.now() + Math.random() * 24h, as offsets from now: due at once, or
\* a day away
SendOffsets == {0, Day}

NewAutoMessage(pair, sendDate) ==
    [sender |-> pair[1], recipient |-> pair[2], sendDate |-> sendDate,
     isQueued |-> FALSE, isSent |-> FALSE, conversation |-> 0]

\* planAutomaticMessages, `active` being what User.find({isActive: true})
\* returns
planAutomaticMessages(active) ==
    /\ IF Cardinality(active) < 2
       THEN UNCHANGED autoMessages
       ELSE \E sh \in Shuffles(active) :
            \E off \in [1..Len(Pairs(sh)) -> SendOffsets] :
               /\ Len(autoMessages) + Len(Pairs(sh)) <= MaxAuto
               /\ autoMessages' = autoMessages \o
                      [k \in 1..Len(Pairs(sh)) |->
                          NewAutoMessage(Pairs(sh)[k], now + off[k])]
    /\ out' = <<>>
    /\ UNCHANGED <<now, netVars, creates, online, clients, chatVars, queue, published, scans, consumers>>

\* The planner run of the pipeline: every user is active
Planner == planAutomaticMessages(ActiveUsers)

\* AutoMessage.find({sendDate: {$lte: new Date()}, isQueued: false,
\*                   isSent: false})
Pending(ams) ==
    {a \in DOMAIN ams :
        ams[a].sendDate <= now /\ ~ams[a].isQueued /\ ~ams[a].isSent}

\* A sequence without its i-th element
RemoveAt(s, i) == [k \in 1..(Len(s) - 1) |-> IF k < i THEN s[k] ELSE s[k + 1]]

\* processQueuedMessages: the find.  cron fires every minute whether or not
\* the scan before has returned, so scans overlap; each is the list it
\* found and its position in the loop
QueuerFind ==
    /\ Len(scans) < MaxScans
    /\ Pending(autoMessages) # {}
    /\ scans' = Append(scans, [todo |-> SortedSeq(Pending(autoMessages)),
                               flip |-> FALSE])
    /\ out' = <<>>
    /\ UNCHANGED <<now, netVars, creates, online, clients, chatVars, autoMessages, queue, published, consumers>>

\* publishToQueue: channel.sendToQueue in a try whose catch only logs
publishToQueue(q, a, ok) == IF ok THEN Append(q, a) ELSE q

\* Does the loop go on to the flag flip after this publishToQueue call?
\* publishToQueue never throws, so it always does
FlipAfterPublish(ok) == TRUE

\* The scans after scan k moved on to its next AutoMessage; a scan whose
\* loop is over returns
NextItem(k) ==
    IF Len(scans[k].todo) = 1
    THEN RemoveAt(scans, k)
    ELSE [scans EXCEPT ![k] = [todo |-> Tail(scans[k].todo), flip |-> FALSE]]

\* processQueuedMessages: `await publishToQueue(...)` of the loop
QueuerPublish(k, ok) ==
    /\ k \in DOMAIN scans
    /\ ~scans[k].flip
    /\ queue' = publishToQueue(queue, Head(scans[k].todo), ok)
    /\ published' = IF ok THEN published \cup {Head(scans[k].todo)}
                    ELSE published
    /\ scans' = IF FlipAfterPublish(ok)
                THEN [scans EXCEPT ![k].flip = TRUE]
                ELSE NextItem(k)
    /\ out' = <<>>
    /\ UNCHANGED <<now, netVars, creates, online, clients, chatVars, autoMessages, consumers>>

\* What message.save() of the queuer stores: its modified path isQueued
SaveQueued(am) == [am EXCEPT !.isQueued = TRUE]

\* processQueuedMessages: message.isQueued = true; message.save()
QueuerFlip(k) ==
    /\ k \in DOMAIN scans
    /\ scans[k].flip
    /\ autoMessages' = [autoMessages EXCEPT
           ![Head(scans[k].todo)] = SaveQueued(@)]
    /\ scans' = NextItem(k)
    /\ out' = <<>>
    /\ UNCHANGED <<now, netVars, creates, online, clients, chatVars, queue, published, consumers>>

\* channel.ack(msg) after processAutoMessage returned, with the line
\* processAutoMessage logged before it returned
AckEv(a, logged) == Ev("ack", "queue", "", "", 0, 0, logged, a)

\* The callback goes on whatever the AutoMessage is
SkipsItemNever(ams, a) == FALSE

\* if (!autoMessage || autoMessage.isSent) return;
SkipsItem(ams, a) == a \notin DOMAIN ams \/ ams[a].isSent

\* channel.consume callback up to AutoMessage.findById: a missing or sent
\* AutoMessage returns at once and the item is acknowledged
ConsumerReceive ==
    /\ queue # <<>>
    /\ Len(consumers) < MaxConsumers
    /\ queue' = Tail(queue)
    /\ LET a == Head(queue)
       IN IF SkipsItem(autoMessages, a)
          THEN /\ UNCHANGED consumers
               /\ out' = <<AckEv(a, "")>>
          ELSE /\ consumers' = Append(consumers,
                      [am |-> a, pc |-> "find", conv |-> 0, msg |-> 0])
               /\ out' = <<>>
    /\ UNCHANGED <<now, netVars, creates, online, clients, chatVars, autoMessages, published, scans>>

\* AutoMessage.findById rejects: the catch of processAutoMessage logs the
\* error, processAutoMessage returns and the callback acknowledges the item
ConsumerLoadFail ==
    /\ queue # <<>>
    /\ queue' = Tail(queue)
    /\ out' = <<AckEv(Head(queue), "Error processing auto message")>>
    /\ UNCHANGED <<now, netVars, creates, online, clients, chatVars, autoMessages, published, scans, consumers>>

\* Conversation.findOne({participants: {$all: [s, r]}, type: 'private'})
PrivateConversations(s, r) ==
    {c \in ConvIds : /\ {s, r} \subseteq conversations[c].participants
                     /\ conversations[c].type = "private"}

SetConsumer(i, h) == [consumers EXCEPT ![i] = h]

\* processAutoMessage: the conversation lookup
ConsumerFind(i) ==
    /\ i \in DOMAIN consumers
    /\ consumers[i].pc = "find"
    /\ LET a == autoMessages[consumers[i].am]
           found == PrivateConversations(a.sender, a.recipient)
       IN consumers' = SetConsumer(i,
             IF found = {}
             THEN [consumers[i] EXCEPT !.pc = "create"]
             ELSE [consumers[i] EXCEPT !.pc = "msg",
                      !.conv = CHOOSE c \in found : \A d \in found : c <= d])
    /\ out' = <<>>
    /\ UNCHANGED <<now, netVars, creates, online, clients, chatVars, autoMessages, queue, published, scans>>

\* processAutoMessage: new Conversation({participants, type: 'private'}).save()
ConsumerCreate(i) ==
    /\ i \in DOMAIN consumers
    /\ consumers[i].pc = "create"
    /\ Len(conversations) < MaxConversations
    /\ LET a == autoMessages[consumers[i].am]
       IN conversations' = Append(conversations,
                               NewConversation({a.sender, a.recipient}))
    /\ convSaves' = Append(convSaves, 0)
    /\ consumers' = SetConsumer(i, [consumers[i] EXCEPT !.pc = "msg",
                                       !.conv = Len(conversations) + 1])
    /\ out' = <<>>
    /\ UNCHANGED <<now, netVars, creates, online, clients, messages, deletes, autoMessages, queue, published, scans>>

\* processAutoMessage: new Message({sender, conversation, content, type}).save()
ConsumerMessage(i) ==
    /\ i \in DOMAIN consumers
    /\ consumers[i].pc = "msg"
    /\ Len(messages) < MaxMessages
    /\ LET a == autoMessages[consumers[i].am]
           id == Len(messages) + 1
       IN messages' = Append(messages,
              [sender |-> a.sender, conversation |-> consumers[i].conv,
               content |-> "auto", messageId |-> RandomUUID(id),
               sessionId |-> "", readBy |-> <<>>, deletedFor |-> <<>>,
               isDeleted |-> FALSE, deliveryStatus |-> "sent",
               createdAt |-> now, stage |-> "done",
               autoMessage |-> consumers[i].am,
               type |-> "text", fileSize |-> 0])
    /\ consumers' = SetConsumer(i, [consumers[i] EXCEPT !.pc = "link",
                                       !.msg = Len(messages) + 1])
    /\ out' = <<>>
    /\ UNCHANGED <<now, netVars, creates, online, clients, conversations, convSaves, deletes, autoMessages,
                   queue, published, scans>>

\* processAutoMessage: conversation.lastMessage / lastActivity, save()
ConsumerLink(i) ==
    /\ i \in DOMAIN consumers
    /\ consumers[i].pc = "link"
    /\ LET c == consumers[i].conv
       IN /\ conversations' = [conversations EXCEPT
                 ![c].lastMessage = consumers[i].msg, ![c].lastActivity = now]
          /\ convSaves' = [convSaves EXCEPT ![c] = @ + 1]
    /\ consumers' = SetConsumer(i, [consumers[i] EXCEPT !.pc = "sent"])
    /\ out' = <<>>
    /\ UNCHANGED <<now, netVars, creates, online, clients, messages, deletes, autoMessages, queue, published, scans>>

\* autoMessage.save() of the consumer with isQueued reset as well
SaveSentClearsQueued(am, c) ==
    [am EXCEPT !.isSent = TRUE, !.conversation = c, !.isQueued = FALSE]

\* What autoMessage.save() of the consumer stores: its modified paths
\* isSent (with sentAt) and conversation
SaveSent(am, c) == [am EXCEPT !.isSent = TRUE, !.conversation = c]

\* processAutoMessage: autoMessage.isSent = true, save(), the message_received
\* push to the recipient's room; then channel.ack
ConsumerSent(i) ==
    /\ i \in DOMAIN consumers
    /\ consumers[i].pc = "sent"
    /\ LET a == consumers[i].am
       IN /\ autoMessages' = [autoMessages EXCEPT
                 ![a] = SaveSent(@, consumers[i].conv)]
          /\ out' = << Ev("message_received", "user", autoMessages[a].recipient,
                          "", consumers[i].conv, consumers[i].msg, "", a),
                       AckEv(a, "Auto message sent") >>
    /\ consumers' = RemoveAt(consumers, i)
    /\ UNCHANGED <<now, netVars, creates, online, clients, chatVars, queue, published, scans>>

\* An awaited step of processAutoMessage rejects (the conversation lookup or
\* a save): the catch logs the error, what was saved before stays saved,
\* processAutoMessage returns and the callback acknowledges the item
ConsumerFail(i) ==
    /\ i \in DOMAIN consumers
    /\ out' = <<AckEv(consumers[i].am, "Error processing auto message")>>
    /\ consumers' = RemoveAt(consumers, i)
    /\ UNCHANGED <<now, netVars, creates, online, clients, chatVars, autoMessages, queue, published, scans>>

----------------------------------------------------------------------------
(* Payloads of the clients *)

\* The sessionId a client puts in a payload: its own, or none
PayloadSessions(cs) == {cs, NoSession}

----------------------------------------------------------------------------
(* The send protocol: every send_message input, the link and the timer *)

NextSend ==
    \/ \E cn \in Conns \ {<<"u1", "s2">>}, c \in ConvIds,
          content \in Contents, key \in KeyInputs :
         \E sess \in PayloadSessions(cn[2]) :
            SendMessage(cn[1], cn[2], sess, c, content, key)
    \/ \E id \in MsgIds : SendLink(id)
    \/ \E id \in MsgIds : DeliveryTimer(id)

SpecSend == Init /\ [][NextSend]_vars

\* The awaited conversation.save() of an accepted send resolves and the
\* setTimeout callback set after message_sent runs: neither step of a
\* message stays enabled for ever without being taken
SendFairness ==
    \A id \in 1..MaxMessages :
        WF_vars(SendLink(id)) /\ WF_vars(DeliveryTimer(id))

SpecSendFair == SpecSend /\ SendFairness

----------------------------------------------------------------------------
(* Accepted sends used by the specifications below: a participant with its *)
(* session id, text content, no client key                                 *)

Senders == { <<"u1", "s1">>, <<"u2", "s1">> }

AcceptedSend(C) ==
    \E cn \in Senders, c \in C :
        SendMessage(cn[1], cn[2], cn[2], c, "hi", NoKey)

(* Delivery status and read receipts in conversation 1: sends with their   *)
(* link and timer; read marking by the sender, by the recipient from two   *)
(* sessions and by an outsider, through the socket event and, for the      *)
(* recipient, both REST routes                                             *)

Readers == { <<"u1", "s1">>, <<"u2", "s1">>, <<"u2", "s2">>, <<"u3", "s1">> }
RestReaders == { <<"u2", "s1">>, <<"u2", "s2">> }

NextStatus ==
    \/ AcceptedSend({1})
    \/ \E id \in MsgIds : SendLink(id)
    \/ \E id \in MsgIds : DeliveryTimer(id)
    \/ \E cn \in Readers, S \in SUBSET MsgIds :
            MarkMessagesRead(cn[1], cn[2], cn[2], 1, S)
    \/ \E cn \in RestReaders, S \in SUBSET MsgIds :
            RestMarkRead(cn[1], cn[2], S)
    \/ \E cn \in RestReaders : RestConversationMarkRead(cn[1], cn[2], 1)

SpecStatus == Init /\ [][NextStatus]_vars

----------------------------------------------------------------------------
(* mark_messages_read over both conversations, on messages that may be     *)
(* deleted for the caller or for everyone                                  *)

FrameReaders == { <<"u1", "s1">>, <<"u2", "s1">> }

NextFrame ==
    \/ AcceptedSend(ConvIds)
    \/ \E cn \in FrameReaders, c \in ConvIds, S \in SUBSET MsgIds :
            MarkMessagesRead(cn[1], cn[2], cn[2], c, S)
    \/ \E id \in MsgIds :
            DeleteMessage("u1", "s1", id, "forEveryone",
                          messages[id].conversation)
    \/ \E id \in MsgIds :
            DeleteMessage("u2", "s1", id, "forMe", messages[id].conversation)
    \/ \E t \in deletes : DeleteSave(t)

SpecFrame == Init /\ [][NextFrame]_vars

----------------------------------------------------------------------------
(* Deleting for everyone against the clock, in conversation 1: the sender, *)
(* the recipient and an outsider ask through the socket event, the sender  *)
(* and the recipient through the REST route; the recipient marks read and  *)
(* either participant deletes the conversation                             *)

WindowCallers == { <<"u1", "s1">>, <<"u2", "s1">>, <<"u3", "s1">> }
WindowRestCallers == { <<"u1", "s2">>, <<"u2", "s2">> }

NextWindow ==
    \/ AcceptedSend({1})
    \/ Tick
    \/ \E cn \in WindowCallers, id \in MsgIdInputs :
            DeleteMessage(cn[1], cn[2], id, "forEveryone", 1)
    \/ \E cn \in WindowRestCallers, id \in MsgIds :
            RestDeleteForEveryone(cn[1], cn[2], id)
    \/ \E t \in deletes : DeleteSave(t)
    \/ MarkMessagesRead("u2", "s1", "s1", 1, MsgIds)
    \/ \E cn \in Senders : RestDeleteConversation(cn[1], cn[2], 1)

SpecWindow == Init /\ [][NextWindow]_vars

----------------------------------------------------------------------------
(* Deleting for oneself, in conversation 1: u1 from two sessions and u2,   *)
(* through delete_message, the REST route and delete_multiple_messages,    *)
(* next to a delete for everyone of the sender and a mark-read of u2       *)

ForMeCallers == { <<"u1", "s1">>, <<"u2", "s1">> }

NextDelete ==
    \/ SendMessage("u1", "s1", "s1", 1, "hi", NoKey)
    \/ MarkMessagesRead("u2", "s1", "s1", 1, MsgIds)
    \/ \E cn \in ForMeCallers, id \in MsgIds :
            DeleteMessage(cn[1], cn[2], id, "forMe", 1)
    \/ \E id \in MsgIds : RestDeleteForMe("u1", "s2", id)
    \/ \E id \in MsgIds : DeleteMessage("u1", "s1", id, "forEveryone", 1)
    \/ \E t \in deletes : DeleteSave(t)
    \/ DeleteMultiple("u2", "s2", SortedSeq(MsgIds), 1)
    \/ \E t \in deletes : BulkFind(t)
    \/ \E t \in deletes : BulkSave(t)
    \/ \E t \in deletes : BulkFinish(t)

SpecDelete == Init /\ [][NextDelete]_vars

----------------------------------------------------------------------------
(* Planner runs alone, over every set of active accounts *)

NextPlanner == \E active \in SUBSET Accounts : planAutomaticMessages(active)

SpecPlanner == Init /\ [][NextPlanner]_vars

----------------------------------------------------------------------------
(* The pipeline: planner, overlapping queuer scans and the consumer *)

NextPipeline ==
    \/ Planner
    \/ QueuerFind
    \/ \E k \in DOMAIN scans, ok \in BOOLEAN : QueuerPublish(k, ok)
    \/ \E k \in DOMAIN scans : QueuerFlip(k)
    \/ ConsumerReceive
    \/ ConsumerLoadFail
    \/ \E i \in DOMAIN consumers : ConsumerFind(i)
    \/ \E i \in DOMAIN consumers : ConsumerCreate(i)
    \/ \E i \in DOMAIN consumers : ConsumerMessage(i)
    \/ \E i \in DOMAIN consumers : ConsumerLink(i)
    \/ \E i \in DOMAIN consumers : ConsumerSent(i)
    \/ \E i \in DOMAIN consumers : ConsumerFail(i)

SpecPipeline == Init /\ [][NextPipeline]_vars

----------------------------------------------------------------------------
(* Claims *)

HasError(evs) == \E e \in Range(evs) : e.ev = "error"

KeyCount(msgs, k) == Cardinality({i \in DOMAIN msgs : msgs[i].messageId = k})

Linked(c) ==
    Cardinality({i \in MsgIds : /\ messages[i].conversation = c
                                /\ messages[i].stage # "link"})

\* In the state: no client key is stored twice, and each conversation's
\* lastMessage/lastActivity was saved once per linked message of it
OneMessagePerKey ==
    /\ \A k \in ClientKeys : KeyCount(messages, k) <= 1
    /\ \A c \in ConvIds : convSaves[c] = Linked(c)

\* C1: idempotent send.  Whatever the sends, at most one Message per client
\* key is persisted and lastMessage/lastActivity is bumped once per persisted
\* message; a send_message whose key is already stored changes no stored
\* state (no Message, no conversation save).
C1_IdempotentSend ==
    [][ /\ OneMessagePerKey'
        /\ \/ UNCHANGED <<conversations, messages, convSaves>>
           \/ \A key \in ClientKeys :
                KeyCount(messages, key) >= 1 =>
                   \A cn \in Conns, c \in ConvIds, content \in Contents :
                      ~SendMessage(cn[1], cn[2], cn[2], c, content, key) ]_vars

\* C1 witness: a retry of a stored key was answered with the save error while
\* the key's one message is linked to its conversation
C1_Witness ==
    /\ \E e \in Range(out) : e.text = "Error sending message"
    /\ \E i \in MsgIds : /\ messages[i].messageId \in ClientKeys
                         /\ messages[i].stage # "link"
                         /\ convSaves[messages[i].conversation] = 1

Rank(status) ==
    CASE status = "sent" -> 0
      [] status = "delivered" -> 1
      [] status = "read" -> 2

\* C2: monotonic delivery status.  No step moves a message's stored
\* deliveryStatus backwards in [sent, delivered, read].
C2_MonotonicStatus ==
    [][ \A id \in MsgIds :
           Rank(messages'[id].deliveryStatus) >= Rank(messages[id].deliveryStatus)
      ]_vars

ReadEntries(m, u) == {i \in DOMAIN m.readBy : m.readBy[i].user = u}

\* C3: read-receipt uniqueness.  In every reachable state every message's
\* readBy holds at most one entry per user.
C3_ReadByUnique ==
    \A id \in MsgIds, u \in Users :
        Cardinality(ReadEntries(messages[id], u)) <= 1

\* C3 witness: u2 marked every message read from session s1, and a duplicate
\* mark-read of u2 through the REST route from session s2 has been answered
C3_Witness ==
    /\ messages # <<>>
    /\ \A id \in MsgIds :
          \E i \in DOMAIN messages[id].readBy :
             /\ messages[id].readBy[i].user = "u2"
             /\ messages[id].readBy[i].sessionId = "s1"
    /\ out = <<Http("u2", "s2", 0, 200, "Messages marked as read")>>

\* C4: unauthorized participant rejection.  A send_message or
\* mark_messages_read (with a session id) of a user who is not a participant
\* of the conversation emits an error event and changes no message.
C4_UnauthorizedRejected ==
    [][ \A cn \in Conns, c \in ConvIds :
           cn[1] \notin conversations[c].participants =>
              /\ \A content \in Contents, key \in KeyInputs :
                    SendMessage(cn[1], cn[2], cn[2], c, content, key)
                    => (HasError(out') /\ messages' = messages)
              /\ \A S \in SUBSET MsgIds :
                    MarkMessagesRead(cn[1], cn[2], cn[2], c, S)
                    => (HasError(out') /\ messages' = messages) ]_vars

\* The messages the claim says a mark_messages_read of u for c and S updates
Markable(m, id, S, c, u) ==
    /\ id \in S
    /\ m.conversation = c
    /\ \A i \in DOMAIN m.readBy : m.readBy[i].user # u
    /\ ~m.isDeleted
    /\ \A i \in DOMAIN m.deletedFor : m.deletedFor[i].user # u

\* C7: frame of mark_messages_read.  A mark_messages_read of participant u
\* (session s) for conversation c and ids S appends the one entry
\* (u, now, s) to readBy and sets deliveryStatus read on exactly the messages
\* of S that belong to c, have no readBy entry of u, are not deleted for
\* everyone and not deleted for u; every other message is unchanged.
C7_MarkReadFrame ==
    [][ \A cn \in FrameReaders, c \in ConvIds :
          cn[1] \in conversations[c].participants =>
            \A S \in SUBSET MsgIds :
               MarkMessagesRead(cn[1], cn[2], cn[2], c, S)
               => \A id \in MsgIds :
                     messages'[id] =
                       IF Markable(messages[id], id, S, c, cn[1])
                       THEN [messages[id] EXCEPT
                               !.readBy = Append(@, [user |-> cn[1],
                                                     readAt |-> now,
                                                     sessionId |-> cn[2]]),
                               !.deliveryStatus = "read"]
                       ELSE messages[id] ]_vars

\* C7 witness: a mark_messages_read naming both stored messages has marked
\* one of them for the caller and left the other without an entry of the
\* caller
C7_Witness ==
    /\ Len(messages) = 2
    /\ out # <<>>
    /\ out[1].ev = "messages_read" /\ out[1].n = 2
    /\ \E a, b \in MsgIds :
          /\ out[1].user \in ReadUsers(messages[a])
          /\ messages[a].deliveryStatus = "read"
          /\ out[1].user \notin ReadUsers(messages[b])

AuthorizationErrors ==
    {"Access denied", "Only sender can delete for everyone",
     "Only sender can delete message for everyone"}

TimeLimitErrors ==
    {"Message can only be deleted for everyone within 1 hour",
     "Message can only be deleted for everyone within 1 hour of sending"}

\* The claim's condition: u is m's sender and m is at most one hour old
SenderInWindow(m, u) == m.sender = u /\ now - m.createdAt <= Hour

\* What the claim says a delete for everyone of u on m answers: nothing yet
\* and the handler goes on to its save, or one error of the right family
WindowOutcome(m, u) ==
    IF SenderInWindow(m, u)
    THEN out' = <<>> /\ deletes' # deletes
    ELSE /\ deletes' = deletes
         /\ Len(out') = 1
         /\ out'[1].text \in (IF m.sender # u THEN AuthorizationErrors
                              ELSE TimeLimitErrors)

\* C5: delete-for-everyone window.  A delete for everyone of a stored message
\* (socket event or REST route) goes through iff the caller is the sender and
\* the message is at most one hour old, and then its save sets isDeleted; a
\* non-sender is answered with an authorization error, a sender outside the
\* window with a time-limit error, the two differ, and a refused request
\* leaves every message unchanged.
C5_DeleteWindow ==
    [][ /\ AuthorizationErrors \cap TimeLimitErrors = {}
        /\ \/ UNCHANGED <<messages, deletes, out>>
           \/ /\ \A id \in MsgIds :
                   /\ \A cn \in WindowCallers :
                        DeleteMessage(cn[1], cn[2], id, "forEveryone", 1)
                        => /\ messages' = messages
                           /\ WindowOutcome(messages[id], cn[1])
                   /\ \A cn \in WindowRestCallers :
                        RestDeleteForEveryone(cn[1], cn[2], id)
                        => /\ messages' = messages
                           /\ WindowOutcome(messages[id], cn[1])
              /\ \A t \in deletes :
                   (t.dtype = "forEveryone" /\ DeleteSave(t))
                   => /\ messages'[t.mid].isDeleted
                      /\ \A id \in MsgIds \ {t.mid} :
                            messages'[id] = messages[id] ]_vars

\* C5 witness: the sender's delete for everyone of one message has gone
\* through, and its delete of another message, older than one hour, has just
\* been answered with the time-limit error
C5_Witness ==
    /\ out # <<>>
    /\ out[1].text \in TimeLimitErrors
    /\ \E a, b \in MsgIds :
          /\ messages[a].isDeleted
          /\ ~messages[b].isDeleted
          /\ messages[b].sender = out[1].user
          /\ now - messages[b].createdAt > Hour

\* C6: sender-only, windowed and permanent isDeleted.  No step turns a
\* message's isDeleted from true to false, and a step that turns it to true
\* is the save of a delete for everyone that passed the sender and window
\* tests, or a conversation deletion by the message's sender within one hour
\* of createdAt.
C6_DeletedBySenderInWindow ==
    [][ \A id \in MsgIds :
          /\ messages[id].isDeleted => messages'[id].isDeleted
          /\ (~messages[id].isDeleted /\ messages'[id].isDeleted)
             => \/ \E t \in deletes :
                     /\ t.dtype = "forEveryone" /\ t.mid = id
                     /\ t.user = messages[id].sender
                     /\ DeleteSave(t)
                \/ \E cn \in Senders :
                     /\ SenderInWindow(messages[id], cn[1])
                     /\ RestDeleteConversation(cn[1], cn[2], 1) ]_vars

DeletedForEntries(m, u) ==
    {i \in DOMAIN m.deletedFor : m.deletedFor[i].user = u}

\* C8: delete-for-me is idempotent and framed.  The save of a delete-for-me
\* handler of u on m (delete_message, REST route or one pass of
\* delete_multiple_messages) leaves deletedFor unchanged when the handler
\* found an entry of u on m, and in every case leaves unchanged m's readBy
\* and isDeleted, whether m is deleted for each other user, each other user's
\* unread count, and every other message.
C8_DeleteForMeFrame ==
    [][ \A t \in deletes :
          (t.dtype = "forMe" /\ t.mid # 0 /\ (DeleteSave(t) \/ BulkSave(t)))
          => LET m == messages[t.mid]
                 m2 == messages'[t.mid]
             IN /\ t.existing => m2.deletedFor = m.deletedFor
                /\ m2.readBy = m.readBy
                /\ m2.isDeleted = m.isDeleted
                /\ \A v \in Users \ {t.user} :
                      /\ isDeletedForUser(m2, v) = isDeletedForUser(m, v)
                      /\ \A c \in ConvIds :
                            getUnreadCount(messages', c, v)
                               = getUnreadCount(messages, c, v)
                /\ \A id \in MsgIds \ {t.mid} : messages'[id] = messages[id]
      ]_vars

\* C8 witness: a delete-for-me of u1 through the REST route has just been
\* answered while every stored message holds u1's entry followed by u2's:
\* the handler found u1's entry and its save pushed nothing
C8_Witness ==
    /\ out = <<Http("u1", "s2", 0, 200, "Message deleted for you")>>
    /\ messages # <<>>
    /\ \A id \in MsgIds :
          /\ Len(messages[id].deletedFor) = 2
          /\ messages[id].deletedFor[1].user = "u1"
          /\ messages[id].deletedFor[2].user = "u2"
          /\ ~messages[id].isDeleted

\* C9: concurrent delete-for-me.  Once no delete handler is in flight, every
\* message's deletedFor holds at most one entry per user.
C9_OneDeletedForEntry ==
    deletes = {} =>
       \A id \in MsgIds, u \in Users :
          Cardinality(DeletedForEntries(messages[id], u)) <= 1

\* C10: the queuer never silently drops.  In every reachable state an
\* AutoMessage with isQueued = true has had its work item put on the queue.
C10_QueuedOnlyIfPublished ==
    \A a \in DOMAIN autoMessages :
        autoMessages[a].isQueued => a \in published

\* The Messages created on behalf of AutoMessage a
MessagesFor(a) == {i \in MsgIds : messages[i].autoMessage = a}

\* C11: no duplicate automated sends.  In every reachable state at most one
\* Message has been created on behalf of each AutoMessage.
C11_OneMessagePerAutoMessage ==
    \A a \in DOMAIN autoMessages : Cardinality(MessagesFor(a)) <= 1

\* C12: consumer idempotent skip.  A delivery whose AutoMessage is missing
\* or already isSent is acknowledged at once: no Message is created, no
\* Conversation or AutoMessage changes, no callback stays in flight and no
\* message_received is emitted.
C12_ConsumerSkip ==
    [][ (/\ queue # <<>>
         /\ \/ Head(queue) \notin DOMAIN autoMessages
            \/ autoMessages[Head(queue)].isSent
         /\ ConsumerReceive)
        => /\ out' = <<AckEv(Head(queue), "")>>
           /\ UNCHANGED <<messages, conversations, autoMessages, consumers>>
      ]_vars

\* C12 witness: a second delivery of a sent AutoMessage has just been
\* acknowledged without a log line, and its one Message is the only one
C12_Witness ==
    /\ Len(out) = 1
    /\ out[1].ev = "ack" /\ out[1].text = ""
    /\ autoMessages[out[1].n].isSent
    /\ Cardinality(MessagesFor(out[1].n)) = 1
    /\ Len(messages) = 1

\* C13: consumer failure handling.  A delivery whose processing fails at a
\* step is negatively acknowledged and never acknowledged.
C13_FailureNacked ==
    [][ (ConsumerLoadFail \/ \E i \in DOMAIN consumers : ConsumerFail(i))
        => /\ \E e \in Range(out') : e.ev = "nack"
           /\ ~\E e \in Range(out') : e.ev = "ack" ]_vars

\* C14: one-way AutoMessage transitions.  No step of planner, queuer or
\* consumer turns an AutoMessage's isQueued or isSent from true to false.
C14_OneWayFlags ==
    [][ \A a \in DOMAIN autoMessages :
          /\ autoMessages[a].isQueued => autoMessages'[a].isQueued
          /\ autoMessages[a].isSent => autoMessages'[a].isSent ]_vars

\* C14 witness: a consumer has just stored isSent on an AutoMessage that the
\* queuer had flagged isQueued, and both flags are set
C14_Witness ==
    /\ out # <<>>
    /\ out[1].ev = "message_received"
    /\ autoMessages[out[1].n].isSent
    /\ autoMessages[out[1].n].isQueued

\* The users of an AutoMessage
Pair(am) == {am.sender, am.recipient}

\* C15: planner pairing.  A planner run over n active users appends 0
\* AutoMessages when n < 2 and n \div 2 otherwise, and changes none that
\* exists; each new one has isQueued and isSent false and a sender that
\* differs from its recipient, both active; no user is in two of them.
C15_PlannerPairing ==
    [][ \A active \in SUBSET Accounts :
          planAutomaticMessages(active)
          => LET n == Cardinality(active)
                 old == DOMAIN autoMessages
                 new == DOMAIN autoMessages' \ old
             IN /\ Cardinality(new) = IF n < 2 THEN 0 ELSE n \div 2
                /\ \A i \in old : autoMessages'[i] = autoMessages[i]
                /\ \A i \in new :
                      /\ ~autoMessages'[i].isQueued
                      /\ ~autoMessages'[i].isSent
                      /\ autoMessages'[i].sender # autoMessages'[i].recipient
                      /\ Pair(autoMessages'[i]) \subseteq active
                /\ \A i, j \in new :
                      i # j => Pair(autoMessages'[i]) \cap
                                  Pair(autoMessages'[j]) = {} ]_vars

\* C15 witness: the planner has created two AutoMessages over four distinct
\* users, none queued or sent
C15_Witness ==
    /\ Len(autoMessages) = 2
    /\ Cardinality(Pair(autoMessages[1]) \cup Pair(autoMessages[2])) = 4
    /\ \A i \in DOMAIN autoMessages :
          ~autoMessages[i].isQueued /\ ~autoMessages[i].isSent

----------------------------------------------------------------------------
(* Connections, rooms and conversation creation *)

\* Who gets an emitted event: io.to(room) reaches the sockets in the room,
\* socket.to(room) those but the emitting one, socket.emit the emitting
\* socket; the personal room user_<id> holds every live socket of the user
Receives(e, cn) ==
    /\ cn \in sockets
    /\ CASE e.kind = "conv" -> <<cn, e.conv>> \in rooms
         [] e.kind = "convExcept" ->
                <<cn, e.conv>> \in rooms /\ cn # <<e.user, e.sess>>
         [] e.kind = "user" -> cn[1] = e.user
         [] e.kind = "socket" -> cn = <<e.user, e.sess>>
         [] e.kind = "broadcastExcept" -> cn # <<e.user, e.sess>>
         [] OTHER -> FALSE

\* setUserOnline: redisClient.sAdd('online_users', userId); an error of the
\* store is logged and swallowed
setUserOnline(set, u, ok) == IF ok THEN set \cup {u} ELSE set

\* setUserOffline: redisClient.sRem('online_users', userId); an error of the
\* store is logged and swallowed
setUserOffline(set, u, ok) == IF ok THEN set \ {u} ELSE set

\* getOnlineUsers: redisClient.sMembers('online_users'), [] on an error of
\* the store
getOnlineUsers(set, ok) == IF ok THEN set ELSE {}

\* An error of the store reaches the handler that called the helper
PresenceThrowsOnError(ok) == ~ok

\* Whether a presence helper throws to its caller: setUserOnline,
\* setUserOffline and getOnlineUsers catch every error of the store
PresenceThrows(ok) == FALSE

\* io.on('connection'): the user is set online, the socket joins its
\* personal room, user_online goes to the other sockets and the socket
\* joins the rooms of the conversations its user is in now; setOk and getOk
\* say whether the presence store answers.  An error thrown in the handler
\* ends in its catch: error 'Connection error' and socket.disconnect()
Connect(cn, setOk, getOk) ==
    /\ cn \notin sockets
    /\ IF PresenceThrows(setOk /\ getOk)
       THEN /\ out' = <<ErrorEv(cn[1], cn[2], "Connection error")>>
            /\ UNCHANGED <<sockets, rooms, online>>
       ELSE /\ sockets' = sockets \cup {cn}
            /\ online' = setUserOnline(online, cn[1], setOk)
            /\ rooms' = rooms \cup ConnectRooms(cn, conversations)
            /\ out' = <<Ev("user_online", "broadcastExcept", cn[1], cn[2],
                           0, 0, "",
                           Cardinality(getOnlineUsers(online', getOk)))>>
    /\ UNCHANGED <<now, creates, clients, chatVars, pipeVars>>

\* socket.on('disconnect'): the socket has left every room; the user is set
\* offline and user_offline goes to the other sockets.  An error thrown in
\* the handler is logged by its catch
Disconnect(cn, setOk, getOk) ==
    /\ cn \in sockets
    /\ sockets' = sockets \ {cn}
    /\ rooms' = {r \in rooms : r[1] # cn}
    /\ IF PresenceThrows(setOk /\ getOk)
       THEN /\ out' = <<>>
            /\ UNCHANGED online
       ELSE /\ online' = setUserOffline(online, cn[1], setOk)
            /\ out' = <<Ev("user_offline", "broadcastExcept", cn[1], cn[2],
                           0, 0, "",
                           Cardinality(getOnlineUsers(online', getOk)))>>
    /\ UNCHANGED <<now, creates, clients, chatVars, pipeVars>>

\* socket.on('join_room')
JoinRoom(u, cs, sess, c) ==
    /\ <<u, cs>> \in sockets
    /\ IF sess = NoSession
       THEN /\ out' = <<ErrorEv(u, cs, "Session ID required")>>
            /\ UNCHANGED rooms
       ELSE IF ConversationFindOne(c, u)
       THEN /\ rooms' = rooms \cup {<< <<u, cs>>, c >>}
            /\ out' = <<Ev("joined_room", "socket", u, cs, c, 0, sess, 0)>>
       ELSE /\ out' = <<ErrorEv(u, cs, "Unauthorized access to conversation")>>
            /\ UNCHANGED rooms
    /\ UNCHANGED <<now, sockets, creates, online, clients, chatVars, pipeVars>>

\* Conversation.findOne({participants: {$all: [u, p]}, type: 'private',
\* isActive: true}) of POST /conversation/create
ActivePrivateConversations(u, p) ==
    {c \in PrivateConversations(u, p) : conversations[c].isActive}

\* POST /conversation/create up to Conversation.findOne: the reply with the
\* existing private conversation of the two, or a conversation to save; no
\* socket joins a room and nothing is emitted
RestCreateConversation(u, sess, p) ==
    /\ IF sess = NoSession
       THEN /\ out' = <<Http(u, sess, 0, 400, "Session ID required")>>
            /\ UNCHANGED creates
       ELSE IF p = u
       THEN /\ out' = <<Http(u, sess, 0, 400,
                             "Cannot create conversation with yourself")>>
            /\ UNCHANGED creates
       ELSE IF ActivePrivateConversations(u, p) # {}
       THEN /\ \E c \in ActivePrivateConversations(u, p) :
                  out' = <<Http(u, sess, c, 200, "")>>
            /\ UNCHANGED creates
       ELSE /\ ~\E t \in creates : t.user = u /\ t.sess = sess
            /\ creates' = creates \cup {[user |-> u, sess |-> sess, p |-> p]}
            /\ out' = <<>>
    /\ UNCHANGED <<now, netVars, online, clients, chatVars, pipeVars>>

\* POST /conversation/create: new Conversation({participants: [u, p]}),
\* conversation.save() and the reply
RestCreateSave(t) ==
    /\ t \in creates
    /\ Len(conversations) < MaxConversations
    /\ conversations' = Append(conversations,
                               NewConversation({t.user, t.p}))
    /\ convSaves' = Append(convSaves, 0)
    /\ creates' = creates \ {t}
    /\ out' = <<Http(t.user, t.sess, Len(conversations) + 1, 200, "")>>
    /\ UNCHANGED <<now, netVars, online, clients, messages, deletes, pipeVars>>

\* The connections that come and go
FanoutConns == { <<"u2", "s1">>, <<"u3", "s1">> }

\* Connect, create, join and send in any order: u2 opens a conversation
\* with u3 and sends into it
NextFanout ==
    \/ \E cn \in FanoutConns : Connect(cn, TRUE, TRUE)
    \/ \E cn \in FanoutConns : Disconnect(cn, TRUE, TRUE)
    \/ \E sess \in PayloadSessions("s1"), p \in {"u2", "u3"} :
          RestCreateConversation("u2", sess, p)
    \/ \E t \in creates : RestCreateSave(t)
    \/ \E c \in 1..MaxConversations, sess \in PayloadSessions("s1") :
          JoinRoom("u3", "s1", sess, c)
    \/ \E c \in ConvIds :
          /\ <<"u2", "s1">> \in sockets
          /\ SendMessage("u2", "s1", "s1", c, "hi", NoKey)
    \/ \E id \in MsgIds : SendLink(id)

SpecFanout == Init /\ [][NextFanout]_vars

\* C16: fan-out reach.  When an accepted send is fanned out, every live
\* connection of every other participant of the conversation receives the
\* message_received event that carries the message.
C16_FanoutReach ==
    [][ \A id \in MsgIds :
          SendLink(id) =>
            \A cn \in sockets :
               ( /\ cn[1] \in conversations[messages[id].conversation].participants
                 /\ cn[1] # messages[id].sender )
               => \E e \in Range(out') :
                     /\ e.ev = "message_received"
                     /\ e.mid = id
                     /\ Receives(e, cn) ]_vars

\* The acknowledgement events of message id in what a step emitted
AckEvents(o, name, id) == {e \in Range(o) : e.ev = name /\ e.mid = id}

\* C17: sender acknowledgement order.  message_sent goes to the sender's
\* connection for a message that is already stored and not yet announced
\* as delivered, with the client's idempotency key and deliveryStatus sent;
\* message_delivered goes to the same connection only after message_sent,
\* when the stored status is delivered; and every accepted send whose
\* message_delivered is still due is in the end followed by it.
C17_AckOrder ==
    /\ [][ \A id \in MsgIds :
             /\ \A e \in AckEvents(out', "message_sent", id) :
                  /\ messages[id].stage = "link"
                  /\ e.kind = "socket"
                  /\ e.user = messages[id].sender
                  /\ e.sess = messages[id].sessionId
                  /\ e.text = "sent"
                  /\ messages[id].messageId \in ClientKeys
                        => e.n = messages[id].messageId
             /\ \A e \in AckEvents(out', "message_delivered", id) :
                  /\ messages[id].stage = "timer"
                  /\ e.kind = "socket"
                  /\ e.user = messages[id].sender
                  /\ e.sess = messages[id].sessionId
                  /\ e.text = "delivered"
                  /\ messages'[id].deliveryStatus = "delivered" ]_vars
    /\ \A id \in 1..MaxMessages :
          (id \in MsgIds /\ messages[id].stage # "done")
             ~> ( /\ AckEvents(out, "message_delivered", id) # {}
                  /\ messages[id].deliveryStatus = "delivered" )

\* C17 witness: the sender of a message with a client key has just got
\* message_delivered, after message_sent, and the stored status is delivered
C17_Witness ==
    \E id \in MsgIds :
        /\ messages[id].messageId \in ClientKeys
        /\ messages[id].stage = "done"
        /\ messages[id].deliveryStatus = "delivered"
        /\ AckEvents(out, "message_delivered", id) # {}

----------------------------------------------------------------------------
(* Client events and the sessionId of their payload *)

\* socket.on('typing_start'): nothing without sessionId, else user_typing to
\* the rest of the room
TypingStart(u, cs, sess, c) ==
    /\ out' = IF sess = NoSession THEN <<>>
              ELSE <<Ev("user_typing", "convExcept", u, cs, c, 0, sess, 0)>>
    /\ UNCHANGED <<now, netVars, creates, online, clients, chatVars, pipeVars>>

\* socket.on('typing_stop')
TypingStop(u, cs, sess, c) ==
    /\ out' = IF sess = NoSession THEN <<>>
              ELSE <<Ev("user_stop_typing", "convExcept", u, cs, c, 0, sess, 0)>>
    /\ UNCHANGED <<now, netVars, creates, online, clients, chatVars, pipeVars>>

\* socket.on('delete_message') with the payload's sessionId: the handler
\* destructures messageId, deleteType and conversationId only
DeleteMessageEvent(u, cs, sess, id, dtype, c) ==
    DeleteMessage(u, cs, id, dtype, c)

\* socket.on('delete_multiple_messages') with the payload's sessionId: the
\* handler destructures messageIds and conversationId only
DeleteMultipleEvent(u, cs, sess, ids, c) == DeleteMultiple(u, cs, ids, c)

\* The conversation the events name
SessionConvs == {1}

\* The connection that writes: it sends and deletes
SessionWriter == <<"u1", "s1">>

\* The connection that reads: it joins, types and marks read
SessionReader == <<"u2", "s1">>

\* The client events of the model whose payload carries sessionId sess
ClientEvent(sess) ==
    \/ \E c \in SessionConvs :
          JoinRoom(SessionReader[1], SessionReader[2], sess, c)
    \/ \E c \in SessionConvs :
          SendMessage(SessionWriter[1], SessionWriter[2], sess, c, "hi", NoKey)
    \/ \E id \in MsgIdInputs, dtype \in {"forMe", "forEveryone"} :
          DeleteMessageEvent(SessionWriter[1], SessionWriter[2], sess,
                             id, dtype, 1)
    \/ DeleteMultipleEvent(SessionWriter[1], SessionWriter[2], sess,
                           SortedSeq(MsgIds), 1)
    \/ \E c \in SessionConvs :
          TypingStart(SessionReader[1], SessionReader[2], sess, c)
    \/ \E c \in SessionConvs :
          TypingStop(SessionReader[1], SessionReader[2], sess, c)
    \/ \E c \in SessionConvs :
          MarkMessagesRead(SessionReader[1], SessionReader[2], sess, c, MsgIds)

\* Every client event, with and without sessionId, and the steps that
\* finish the handlers
NextSession ==
    \/ \E sess \in PayloadSessions("s1") : ClientEvent(sess)
    \/ \E id \in MsgIds : SendLink(id)
    \/ \E t \in deletes : DeleteSave(t)
    \/ \E t \in deletes : BulkFind(t)
    \/ \E t \in deletes : BulkSave(t)
    \/ \E t \in deletes : BulkFinish(t)

SpecSession == Init /\ [][NextSession]_vars

\* C18: session id requirement.  A client event whose payload has no
\* sessionId is rejected: its handler starts no work, changes nothing that
\* is stored and no room, and emits nothing but a reply to the caller.
C18_SessionRequired ==
    [][ ClientEvent(NoSession)
        => /\ UNCHANGED <<chatVars, netVars, pipeVars, creates, online>>
           /\ \A e \in Range(out') : e.kind = "socket" ]_vars

\* The events of mark_messages_read in what a step emitted
ReadEvents(o) ==
    {e \in Range(o) : e.ev \in {"messages_read", "message_read_receipt",
                                "unread_count_updated"}}

\* C19: mark-read side effects are conditional.  A mark_messages_read whose
\* update modified no message emits no messages_read, message_read_receipt
\* or unread_count_updated; one that modified a message emits messages_read
\* to every other connection in the conversation's room and not to the caller.
C19_ConditionalSideEffects ==
    [][ \A cn \in FrameReaders, c \in ConvIds, S \in SUBSET MsgIds :
          MarkMessagesRead(cn[1], cn[2], cn[2], c, S) =>
            IF messages' = messages
            THEN ReadEvents(out') = {}
            ELSE \E e \in Range(out') :
                    /\ e.ev = "messages_read"
                    /\ e.conv = c
                    /\ ~Receives(e, cn)
                    /\ \A o \in sockets \ {cn} :
                          <<o, c>> \in rooms => Receives(e, o) ]_vars

\* C19 witness: a mark_messages_read has just modified a message of another
\* sender and its messages_read is out
C19_Witness ==
    /\ out # <<>>
    /\ out[1].ev = "messages_read"
    /\ \E i \in MsgIds :
          /\ messages[i].conversation = out[1].conv
          /\ messages[i].sender # out[1].user
          /\ out[1].user \in ReadUsers(messages[i])
          /\ messages[i].deliveryStatus = "read"

\* The messages a step newly marked read
NewlyRead == {i \in MsgIds : messages'[i].readBy # messages[i].readBy}

\* C20: read receipts go to the original sender.  When mark_messages_read
\* by u newly marks messages of a sender s other than u, s's personal room
\* gets one message_read_receipt per newly-read message of s and the
\* unread_count_updated of the conversation.
C20_ReceiptsToSender ==
    [][ \A cn \in FrameReaders, c \in ConvIds, S \in SUBSET MsgIds :
          MarkMessagesRead(cn[1], cn[2], cn[2], c, S) =>
            \A s \in {messages[i].sender : i \in NewlyRead} \ {cn[1]} :
               /\ \A i \in MsgIds :
                     (\E k \in DOMAIN out' :
                         /\ out'[k].ev = "message_read_receipt"
                         /\ out'[k].kind = "user"
                         /\ out'[k].user = s
                         /\ out'[k].mid = i)
                     <=> (i \in NewlyRead /\ messages[i].sender = s)
               /\ \E e \in Range(out') :
                     /\ e.ev = "unread_count_updated"
                     /\ e.conv = c
                     /\ e.kind = "user"
                     /\ e.user = s ]_vars

\* The connections that call POST /conversation/create
CreateCallers == { <<"u1", "s2">>, <<"u2", "s1">>, <<"u3", "s1">> }

\* Concurrent find-or-create calls of the REST interface, and the callers
\* joining the rooms of the conversations they got
NextCreate ==
    \/ \E cn \in CreateCallers, p \in Users :
          \E sess \in PayloadSessions(cn[2]) :
             RestCreateConversation(cn[1], sess, p)
    \/ \E t \in creates : RestCreateSave(t)
    \/ \E cn \in CreateCallers, c \in ConvIds :
          JoinRoom(cn[1], cn[2], cn[2], c)

SpecCreate == Init /\ [][NextCreate]_vars

\* C21: private conversation uniqueness.  No two active private
\* conversations have the same pair of participants.
C21_OnePrivateConversation ==
    \A c, d \in ConvIds :
        ( /\ conversations[c].type = "private"
          /\ conversations[d].type = "private"
          /\ conversations[c].isActive
          /\ conversations[d].isActive
          /\ conversations[c].participants = conversations[d].participants )
        => c = d

----------------------------------------------------------------------------
(* Presence *)

\* The connections that come and go: two sessions of u1 and one of u2
PresenceConns == { <<"u1", "s1">>, <<"u1", "s2">>, <<"u2", "s1">> }

\* Connects and disconnects with the presence store answering
NextPresence ==
    \/ \E cn \in PresenceConns : Connect(cn, TRUE, TRUE)
    \/ \E cn \in PresenceConns : Disconnect(cn, TRUE, TRUE)
    \/ \E cn \in PresenceConns, c \in ConvIds :
          JoinRoom(cn[1], cn[2], cn[2], c)
    \/ \E cn \in PresenceConns, c \in ConvIds :
          TypingStart(cn[1], cn[2], cn[2], c)

SpecPresence == Init /\ [][NextPresence]_vars

\* C22: presence tracks live connections.  A user id is in the online set
\* exactly when the user has a live connection.
C22_PresenceTracksConnections ==
    \A u \in Users : u \in online <=> \E cn \in sockets : cn[1] = u

----------------------------------------------------------------------------
(* Connection authentication *)

\* socket.handshake.auth.token: absent, one that jwt.verify rejects
\* (malformed, expired, wrong signature), or one that decodes to a user id
NoToken == [present |-> FALSE, valid |-> FALSE, id |-> ""]
BadToken == [present |-> TRUE, valid |-> FALSE, id |-> ""]
TokenOf(id) == [present |-> TRUE, valid |-> TRUE, id |-> id]

\* The ids tokens are made for: u2 is active, u4 is stored with
\* isActive = false, u9 is not stored
TokenIds == {"u2", "u4", "u9"}

Tokens == {NoToken, BadToken} \cup {TokenOf(id) : id \in TokenIds}

\* Any stored user passes, active or not
ResolvesUserAny(id) == id \in Accounts

\* User.findById(decoded.id): if (!user || !user.isActive) is false
ResolvesUser(id) == id \in ActiveUsers

\* socketAuth: "" when next() is called without an error, else the message
\* of the error
socketAuth(token, sessionId) ==
    IF ~token.present THEN "Authentication error: No token provided"
    ELSE IF sessionId = NoSession
    THEN "Authentication error: No session ID provided"
    ELSE IF ~token.valid THEN "Authentication error: Invalid token"
    ELSE IF ~ResolvesUser(token.id) THEN "Authentication error: Invalid user"
    ELSE ""

\* A connection attempt: io.use(socketAuth), then the connection handler
\* for a connection that passed
Handshake(token, sessionId) ==
    IF socketAuth(token, sessionId) = ""
    THEN Connect(<<token.id, sessionId>>, TRUE, TRUE)
    ELSE /\ out' = <<Ev("connect_error", "socket", token.id, sessionId, 0, 0,
                        socketAuth(token, sessionId), 0)>>
         /\ UNCHANGED <<now, netVars, creates, online, clients, chatVars, pipeVars>>

\* The session ids of the attempts
HandshakeSessions == {"s1", "s2", NoSession}

\* Connection attempts with every kind of token, and what the accepted
\* connections do
NextAuth ==
    \/ \E token \in Tokens, sessionId \in HandshakeSessions :
          Handshake(token, sessionId)
    \/ \E cn \in sockets : Disconnect(cn, TRUE, TRUE)
    \/ \E cn \in sockets, c \in ConvIds : JoinRoom(cn[1], cn[2], cn[2], c)

SpecAuth == Init /\ [][NextAuth]_vars

\* The errors a refused connection gets
AuthErrors ==
    {"Authentication error: No token provided",
     "Authentication error: No session ID provided",
     "Authentication error: Invalid token",
     "Authentication error: Invalid user"}

\* C23: connection authentication.  A connection attempt is accepted (socket
\* live, user present, rooms of its conversations joined) only with a token
\* that verifies and decodes to a stored active user and with a session id;
\* every other attempt gets an authentication error and changes no
\* connection, room, presence or stored state.
C23_ConnectionAuth ==
    [][ \A token \in Tokens, sessionId \in HandshakeSessions :
          Handshake(token, sessionId) =>
            IF /\ token.present /\ token.valid
               /\ token.id \in ActiveUsers
               /\ sessionId # NoSession
            THEN /\ <<token.id, sessionId>> \in sockets'
                 /\ token.id \in online'
                 /\ ConnectRooms(<<token.id, sessionId>>, conversations)
                       \subseteq rooms'
            ELSE /\ UNCHANGED <<netVars, online, creates, chatVars, pipeVars>>
                 /\ Len(out') = 1
                 /\ out'[1].ev = "connect_error"
                 /\ out'[1].text \in AuthErrors ]_vars

\* C23 witness: the attempt with a token of the inactive user has just been
\* refused, and the active user of the tokens is connected from s2
C23_Witness ==
    /\ out # <<>>
    /\ out[1].ev = "connect_error"
    /\ out[1].user = "u4"
    /\ out[1].text = "Authentication error: Invalid user"
    /\ <<"u2", "s2">> \in sockets
    /\ ~\E cn \in sockets : cn[1] = "u4"

\* C24: join_room checks membership.  join_room adds the connection to a
\* conversation's room only if its user is a participant of the
\* conversation; for a non-participant it emits an error to the caller and
\* leaves the rooms as they were.
C24_JoinRoomMembership ==
    [][ \A c \in 1..MaxConversations, sess \in PayloadSessions("s1") :
          JoinRoom("u3", "s1", sess, c) =>
            IF c \in ConvIds /\ "u3" \in conversations[c].participants
            THEN rooms' \subseteq rooms \cup {<< <<"u3", "s1">>, c >>}
            ELSE /\ rooms' = rooms
                 /\ Len(out') = 1
                 /\ out'[1].ev = "error"
                 /\ Receives(out'[1], <<"u3", "s1">>) ]_vars

\* C24 witness: u3 has just been refused the room of the conversation of u1
\* and u2, after it joined the room of its new conversation with u2
C24_Witness ==
    /\ out # <<>>
    /\ out[1].ev = "error"
    /\ out[1].user = "u3"
    /\ out[1].text = "Unauthorized access to conversation"
    /\ << <<"u3", "s1">>, 1 >> \notin rooms
    /\ \E c \in ConvIds :
          /\ conversations[c].participants = {"u2", "u3"}
          /\ << <<"u3", "s1">>, c >> \in rooms

\* C25: delete for everyone reaches the room.  When a delete for everyone
\* of message m is stored, message_deleted_for_everyone for m is emitted so
\* that every connection in the room of m's conversation receives it,
\* whichever interface did the delete.
C25_DeletedForEveryoneBroadcast ==
    [][ \A t \in deletes :
          (t.dtype = "forEveryone" /\ DeleteSave(t)) =>
            \E e \in Range(out') :
               /\ e.ev = "message_deleted_for_everyone"
               /\ e.mid = t.mid
               /\ \A cn \in sockets :
                     <<cn, messages[t.mid].conversation>> \in rooms
                        => Receives(e, cn) ]_vars

----------------------------------------------------------------------------
(* send_message with a file payload *)

MB == 1024 * 1024

\* fileData of a payload: the MIME type as <<major, minor>> (<<"", "">> when
\* fileData.type is absent), the length of the base64 data and the size the
\* client declares
NoMime == <<"", "">>
NoFile == [mime |-> NoMime, len |-> 0, size |-> 0]

\* messageType after the fileData.type.startsWith tests: the client's type
\* stays when fileData.type is absent
FileMessageType(mime, type) ==
    IF mime = NoMime THEN type
    ELSE IF mime[1] \in {"image", "video", "audio"} THEN mime[1]
    ELSE "file"

\* maxSizes[messageType] || maxSizes.file
MaxSize(messageType) ==
    CASE messageType = "image" -> 10 * MB
      [] messageType = "video" -> 50 * MB
      [] messageType = "audio" -> 20 * MB
      [] OTHER -> 20 * MB

\* Math.round((base64Data.length * 3) / 4)
ActualFileSize(len) == (3 * len + 2) \div 4

\* Math.round(bytes / (1024 * 1024))
RoundMB(bytes) == (2 * bytes + MB) \div (2 * MB)

\* The error of an oversize file: n is the limit and mid the measured size,
\* both in MB, text the category
OversizeEv(u, cs, messageType, actual) ==
    Ev("error", "socket", u, cs, 0, RoundMB(actual), messageType,
       RoundMB(MaxSize(messageType)))

\* socket.on('send_message') up to newMessage.save(), for a payload with
\* type and fileData
SendMessageFile(u, cs, sess, c, content, type, key, fileData) ==
    /\ UNCHANGED <<now, netVars, creates, online, clients, conversations, convSaves,
                   deletes, pipeVars>>
    /\ LET hasFile == fileData.len > 0
           messageType == IF hasFile THEN FileMessageType(fileData.mime, type)
                          ELSE type
           actual == ActualFileSize(fileData.len)
           messageContent == IF hasFile /\ content = "" THEN "File"
                             ELSE content
       IN IF sess = NoSession
          THEN /\ out' = <<ErrorEv(u, cs, "Session ID required")>>
               /\ UNCHANGED messages
          ELSE IF ~ConversationFindOne(c, u)
          THEN /\ out' = <<ErrorEv(u, cs, "Conversation not found")>>
               /\ UNCHANGED messages
          ELSE IF hasFile /\ actual > MaxSize(messageType)
          THEN /\ out' = <<OversizeEv(u, cs, messageType, actual)>>
               /\ UNCHANGED messages
          ELSE IF Trim(messageContent) = "" /\ ~hasFile
          THEN /\ out' = <<ErrorEv(u, cs, "Message content or file required")>>
               /\ UNCHANGED messages
          ELSE IF DuplicateKey(messages, key)
          THEN /\ out' = <<ErrorEv(u, cs, "Error sending message")>>
               /\ UNCHANGED messages
          ELSE /\ Len(messages) < MaxMessages
               /\ messages' = Append(messages,
                      [NewMessage(u, sess, c, messageContent, key,
                                  Len(messages) + 1)
                         EXCEPT !.type = messageType,
                                !.fileSize = IF hasFile THEN actual ELSE 0])
               /\ out' = <<>>

\* The MIME types of the payloads
Mimes == { <<"image", "png">>, <<"video", "mp4">>, <<"audio", "mpeg">>,
           <<"application", "pdf">>, NoMime }

\* The base64 lengths of the payloads: a small one, and for each limit the
\* longest that measures the limit and the next one
B64Lengths ==
    {4} \cup {(k * MB * 4) \div 3 + d : k \in {10, 20, 50}, d \in {0, 1}}

\* The sizes clients declare: too small and too large
DeclaredSizes == {1, 60 * MB}

\* The types clients declare
DeclaredTypes == {"text", "image", "video"}

Files ==
    {[mime |-> m, len |-> l, size |-> d] :
        m \in Mimes, l \in B64Lengths, d \in DeclaredSizes}

\* Sends of u1 with every file payload, and the steps that finish them
NextFile ==
    \/ \E type \in DeclaredTypes, fileData \in Files \cup {NoFile} :
          SendMessageFile("u1", "s1", "s1", 1, "", type, NoKey, fileData)
    \/ \E id \in MsgIds : SendLink(id)
    \/ \E id \in MsgIds : DeliveryTimer(id)

SpecFile == Init /\ [][NextFile]_vars

\* The category of a MIME type: image, video, audio, or file for any other
MimeCategory(mime) ==
    IF mime[1] \in {"image", "video", "audio"} THEN mime[1] ELSE "file"

\* C26: oversize rejection.  A send with a file payload is rejected with the
\* oversize error (limit and measured size) and stores no Message exactly
\* when the size computed from the payload's length exceeds the limit of
\* the category of the file's MIME type, whatever size and message type the
\* client declares.
C26_OversizeRejection ==
    [][ \A type \in DeclaredTypes, fileData \in Files :
          SendMessageFile("u1", "s1", "s1", 1, "", type, NoKey, fileData)
          => LET limit == MaxSize(MimeCategory(fileData.mime))
                 actual == ActualFileSize(fileData.len)
             IN (actual > limit)
                <=> ( /\ messages' = messages
                      /\ Len(out') = 1
                      /\ out'[1].ev = "error"
                      /\ out'[1].n = RoundMB(limit)
                      /\ out'[1].mid = RoundMB(actual) ) ]_vars

\* The contents that are empty once trimmed
EmptyContents == {"", " "}

\* The caller cn got an error, nobody else got anything, and nothing
\* stored and no connection changed
RejectedFor(cn) ==
    /\ Len(out') = 1
    /\ out'[1].ev = "error"
    /\ \A o \in sockets : Receives(out'[1], o) <=> o = cn
    /\ UNCHANGED <<messages, conversations, convSaves, sockets, rooms>>

\* C27: empty send rejection.  A send_message without file payload whose
\* content is empty or blank gets an error on the caller's socket and
\* nothing else is emitted; no Message is stored, no conversation changes
\* and the connection stays open.
C27_EmptySendRejected ==
    [][ \A cn \in Conns \ {<<"u1", "s2">>} :
          \/ RejectedFor(cn)
          \/ ~\E c \in ConvIds, content \in EmptyContents,
                 sess \in {cn[2], NoSession} :
                SendMessage(cn[1], cn[2], sess, c, content, NoKey) ]_vars

\* C27 witness: a blank or empty send to a conversation that has a message
\* has just been refused
C27_Witness ==
    /\ out # <<>>
    /\ out[1].ev = "error"
    /\ out[1].text = "Message content or file required"
    /\ messages # <<>>
    /\ <<out[1].user, out[1].sess>> \in sockets

----------------------------------------------------------------------------
(* Bulk delete with ids of every kind *)

\* messageIds of the requests: stored ids of the conversation named and of
\* another one, ids that are not stored, and the empty list
BulkIdInputs == 1..(MaxMessages + 1)
BulkLists ==
    {<<>>} \cup {<<a>> : a \in BulkIdInputs}
           \cup {<<a, b>> : a \in BulkIdInputs, b \in BulkIdInputs}

\* u1 sends into its two conversations and bulk-deletes in the first
NextBulk ==
    \/ \E c \in {1, 2} : SendMessage("u1", "s1", "s1", c, "hi", NoKey)
    \/ \E ids \in BulkLists : DeleteMultiple("u1", "s1", ids, 1)
    \/ DeleteMultiple("u2", "s1", <<1>>, 2)
    \/ \E t \in deletes : BulkFind(t)
    \/ \E t \in deletes : BulkSave(t)
    \/ \E t \in deletes : BulkFinish(t)

SpecBulk == Init /\ [][NextBulk]_vars

\* C28: bulk delete.  Each listed id is handled on its own: an id that is
\* not stored or belongs to another conversation is skipped, the batch goes
\* on and that message is not changed; a save of the batch changes only the
\* deletedFor list of the listed message of the conversation; the reply
\* goes to the caller with totalRequested = number of ids and deletedCount =
\* number of ids hidden for the caller, at most totalRequested.
C28_BulkDelete ==
    [][ \A t \in deletes :
          /\ BulkFind(t) =>
               /\ messages' = messages
               /\ \E t2 \in deletes' :
                     /\ t2.user = t.user /\ t2.total = t.total
                     /\ t2.done = t.done
                     /\ IF /\ Head(t.todo) \in MsgIds
                           /\ messages[Head(t.todo)].conversation = t.conv
                        THEN t2.mid = Head(t.todo) /\ t2.todo = t.todo
                        ELSE t2.mid = 0 /\ t2.todo = Tail(t.todo)
          /\ BulkSave(t) =>
               /\ messages[t.mid].conversation = t.conv
               /\ t.user \in DeletedForUsers(messages'[t.mid])
               /\ \A id \in MsgIds \ {t.mid} : messages'[id] = messages[id]
               /\ messages' = [messages EXCEPT ![t.mid].deletedFor =
                                                  messages'[t.mid].deletedFor]
          /\ BulkFinish(t) =>
               /\ out' = <<Ev("multiple_messages_deleted", "socket", t.user,
                              t.sess, t.conv, t.total, "", Len(t.done))>>
               /\ Len(t.done) <= t.total
               /\ \A k \in DOMAIN t.done :
                     /\ messages[t.done[k]].conversation = t.conv
                     /\ t.user \in DeletedForUsers(messages[t.done[k]]) ]_vars

\* C28 witness: a batch of two ids, one of them of another conversation or
\* not stored, has just been answered with one message deleted, and a
\* message of the other conversation is stored untouched
C28_Witness ==
    /\ out # <<>>
    /\ out[1].ev = "multiple_messages_deleted"
    /\ out[1].mid = 2
    /\ out[1].n = 1
    /\ \E id \in MsgIds :
          /\ messages[id].conversation = 2
          /\ messages[id].deletedFor = <<>>
    /\ \E id \in MsgIds :
          /\ messages[id].conversation = 1
          /\ "u1" \in DeletedForUsers(messages[id])

\* Connects and disconnects with a presence store that may fail
NextPresenceFaulty ==
    \/ \E cn \in PresenceConns, setOk, getOk \in BOOLEAN :
          Connect(cn, setOk, getOk)
    \/ \E cn \in PresenceConns, setOk, getOk \in BOOLEAN :
          Disconnect(cn, setOk, getOk)

SpecPresenceFaulty == Init /\ [][NextPresenceFaulty]_vars

\* The one event of the step is ev, emitted by cn, and every other live
\* connection receives it
BroadcastToOthers(ev, cn) ==
    /\ Len(out') = 1
    /\ out'[1].ev = ev
    /\ out'[1].user = cn[1]
    /\ \A o \in sockets \ {cn} : Receives(out'[1], o)

\* C29: best-effort presence.  When the presence store fails during a
\* connect or a disconnect, the connecting socket is live afterwards with
\* its rooms joined, no other connection is closed, and user_online or
\* user_offline still goes to every other connection.
C29_BestEffortPresence ==
    [][ \A cn \in PresenceConns, setOk, getOk \in BOOLEAN :
          (~setOk \/ ~getOk) =>
            /\ Connect(cn, setOk, getOk) =>
                 /\ sockets' = sockets \cup {cn}
                 /\ ConnectRooms(cn, conversations) \subseteq rooms'
                 /\ BroadcastToOthers("user_online", cn)
            /\ Disconnect(cn, setOk, getOk) =>
                 /\ sockets' = sockets \ {cn}
                 /\ BroadcastToOthers("user_offline", cn) ]_vars

\* C29 witness: u1 has just connected its second session while the store
\* failed: the connection is live, user_online is out with onlineCount 0
\* and u1 is missing from the online set
C29_Witness ==
    /\ out # <<>>
    /\ out[1].ev = "user_online"
    /\ out[1].user = "u1"
    /\ out[1].n = 0
    /\ {<<"u1", "s1">>, <<"u1", "s2">>} \subseteq sockets
    /\ "u1" \notin online

(* Unread counts of the delivery timer: u1 and u2 send in both             *)
(* conversations; before a timer fires the recipients mark read and delete *)
(* for themselves and u1 deletes for everyone                              *)

UnreadReaders == { <<"u2", "s1">>, <<"u3", "s1">> }

NextUnread ==
    \/ AcceptedSend(ConvIds)
    \/ \E id \in MsgIds : SendLink(id)
    \/ \E id \in MsgIds : DeliveryTimer(id)
    \/ \E cn \in UnreadReaders, c \in ConvIds :
            MarkMessagesRead(cn[1], cn[2], cn[2], c, MsgIds)
    \/ \E cn \in UnreadReaders, id \in MsgIds :
            DeleteMessage(cn[1], cn[2], id, "forMe", messages[id].conversation)
    \/ \E id \in MsgIds :
            DeleteMessage("u1", "s1", id, "forEveryone",
                          messages[id].conversation)
    \/ \E t \in deletes : DeleteSave(t)

SpecUnread == Init /\ [][NextUnread]_vars

\* The stored messages of sender s in conversation c that count as unread
\* for p
UnreadFor(msgs, s, c, p) ==
    {i \in DOMAIN msgs :
        /\ msgs[i].sender = s
        /\ msgs[i].conversation = c
        /\ \A k \in DOMAIN msgs[i].readBy : msgs[i].readBy[k].user # p
        /\ msgs[i].isDeleted = FALSE
        /\ \A k \in DOMAIN msgs[i].deletedFor :
               msgs[i].deletedFor[k].user # p}

\* C30: when the delivery timer of a message fires, each other participant
\* p of its conversation is sent exactly one unread_count_updated, on p's
\* personal room, whose unreadCount is the number of the sender's messages
\* in that conversation, as stored at the push, that p has not read, that
\* are not deleted for everyone and that are not deleted for p.
C30_UnreadCountPushed ==
    [][ \A id \in MsgIds :
          DeliveryTimer(id) =>
            LET s == messages[id].sender
                c == messages[id].conversation
                pushes == {k \in DOMAIN out' :
                              out'[k].ev = "unread_count_updated"}
            IN /\ \A p \in conversations[c].participants \ {s} :
                    \E k \in pushes :
                        /\ out'[k].kind = "user"
                        /\ out'[k].user = p
                        /\ out'[k].conv = c
                        /\ out'[k].text = s
                        /\ out'[k].n =
                             Cardinality(UnreadFor(messages', s, c, p))
               /\ Cardinality(pushes) =
                    Cardinality(conversations[c].participants \ {s}) ]_vars

\* C30 witness: u2 is pushed unreadCount 1 for u1 while u1 has two messages
\* stored in conversation 1, one of them deleted by u2 for itself and read
\* by nobody
C30_Witness ==
    /\ \E k \in DOMAIN out :
          /\ out[k].ev = "unread_count_updated"
          /\ out[k].user = "u2"
          /\ out[k].text = "u1"
          /\ out[k].n = 1
    /\ Len(messages) = 2
    /\ \A i \in MsgIds :
          messages[i].sender = "u1" /\ messages[i].conversation = 1
    /\ \E i \in MsgIds :
          /\ "u2" \in DeletedForUsers(messages[i])
          /\ "u2" \notin ReadUsers(messages[i])
          /\ ~messages[i].isDeleted

----------------------------------------------------------------------------
\* C33: read means read by a recipient.  In every reachable state a message
\* whose deliveryStatus is read has a readBy entry of a user other than its
\* sender.
C33_ReadByRecipient ==
    \A id \in MsgIds :
        messages[id].deliveryStatus = "read"
            => \E u \in ReadUsers(messages[id]) : u # messages[id].sender

\* C34: AutoMessage lifecycle order.  In every reachable state of the
\* pipeline an AutoMessage with isSent = true has isQueued = true.
C34_SentImpliesQueued ==
    \A a \in DOMAIN autoMessages :
        autoMessages[a].isSent => autoMessages[a].isQueued

\* The consumer callbacks in flight that saved message id for AutoMessage a
InFlightFor(a, id) ==
    {i \in DOMAIN consumers : consumers[i].am = a /\ consumers[i].msg = id}

\* C36: consumer partial failure.  Once the consumer callback that persisted
\* a Message for an AutoMessage has returned, that AutoMessage has
\* isSent = true and its conversation field set.
C36_NoMessageWithoutSent ==
    \A id \in MsgIds :
        LET a == messages[id].autoMessage
        IN (a # 0 /\ InFlightFor(a, id) = {})
              => /\ autoMessages[a].isSent
                 /\ autoMessages[a].conversation # 0

----------------------------------------------------------------------------
(* Typing relay: every connection connects, disconnects, joins rooms and   *)
(* types in either conversation, with and without a session id            *)

TypingConns == Conns

NextTyping ==
    \/ \E cn \in TypingConns : Connect(cn, TRUE, TRUE)
    \/ \E cn \in TypingConns : Disconnect(cn, TRUE, TRUE)
    \/ \E cn \in TypingConns, c \in ConvIds :
          cn \in sockets /\ JoinRoom(cn[1], cn[2], cn[2], c)
    \/ \E cn \in TypingConns, c \in ConvIds, sess \in PayloadSessions("s1") :
          cn \in sockets /\ TypingStart(cn[1], cn[2], sess, c)
    \/ \E cn \in TypingConns, c \in ConvIds, sess \in PayloadSessions("s1") :
          cn \in sockets /\ TypingStop(cn[1], cn[2], sess, c)

SpecTyping == Init /\ [][NextTyping]_vars

\* Some live connection receives an event of the step
Delivered(evs) == \E e \in Range(evs), o \in sockets : Receives(e, o)

\* C40: room isolation of relayed events.  A typing_start or typing_stop of
\* a connection whose user is not a participant of the conversation it
\* names delivers no user_typing or user_stop_typing to any connection.
C40_TypingRoomIsolation ==
    [][ \A cn \in TypingConns, c \in ConvIds, sess \in PayloadSessions("s1") :
          ( /\ cn[1] \notin conversations[c].participants
            /\ cn \in sockets
            /\ \/ TypingStart(cn[1], cn[2], sess, c)
               \/ TypingStop(cn[1], cn[2], sess, c) )
             => ~Delivered(out') ]_vars

----------------------------------------------------------------------------
\* The stored messages of conversation c
MessagesOf(c) == {i \in MsgIds : messages[i].conversation = c}

\* A send into c is between its message save and its conversation save
SendInProgress(c) ==
    \/ \E i \in MessagesOf(c) : messages[i].stage = "link"
    \/ \E k \in DOMAIN consumers :
          consumers[k].conv = c /\ consumers[k].pc = "link"

\* C37: lastMessage is the newest message.  Whenever no send into a
\* conversation is in progress and the conversation has messages, its
\* lastMessage is the message persisted last.
C37_LastMessageNewest ==
    \A c \in ConvIds :
        (~SendInProgress(c) /\ MessagesOf(c) # {})
            => \A i \in MessagesOf(c) : i <= conversations[c].lastMessage

----------------------------------------------------------------------------
(* send_message when a step after newMessage.save() rejects *)

\* savedMessage.populate(...) or conversation.save() rejects: the catch of
\* the handler emits error 'Error sending message' to the sender; the
\* message saved before stays saved, nothing is linked and nothing is
\* fanned out
SendLinkFail(id) ==
    /\ id \in MsgIds
    /\ messages[id].stage = "link"
    /\ messages' = [messages EXCEPT ![id].stage = "failed"]
    /\ out' = <<ErrorEv(messages[id].sender, messages[id].sessionId,
                        "Error sending message")>>
    /\ UNCHANGED <<now, netVars, creates, online, conversations, convSaves, deletes, pipeVars>>

\* Sends of u1 and u2 with every payload, whose conversation save lands or
\* rejects
NextAtomic ==
    \/ \E cn \in Senders, c \in ConvIds, content \in Contents,
          key \in KeyInputs, sess \in PayloadSessions("s1") :
            SendMessage(cn[1], cn[2], sess, c, content, key)
    \/ \E id \in MsgIds : SendLink(id)
    \/ \E id \in MsgIds : SendLinkFail(id) /\ UNCHANGED clients
    \/ \E id \in MsgIds : DeliveryTimer(id)

SpecAtomic == Init /\ [][NextAtomic]_vars

\* C38: send is all-or-nothing.  A step that emits an error to the sender
\* stores no Message and leaves the conversations as they were, and a
\* handler that stored a Message ends by linking it as lastMessage and
\* fanning it out as message_received, with no error.
C38_SendAllOrNothing ==
    [][ /\ HasError(out') =>
             /\ Len(messages') = Len(messages)
             /\ conversations' = conversations
        /\ \A id \in MsgIds :
             (messages[id].stage = "link" /\ messages'[id].stage # "link")
                => /\ conversations'[messages[id].conversation].lastMessage = id
                   /\ \E e \in Range(out') :
                         e.ev = "message_received" /\ e.mid = id
                   /\ ~HasError(out') ]_vars

----------------------------------------------------------------------------
(* The browser client (public/js/app.js).  Each modelled connection has a *)
(* client: its message list, its de-duplication set, the events its       *)
(* socket has delivered and no handler has run for yet, and its sends.     *)
(* The payloads carry the connection's session id where the client sends   *)
(* the UUID of the open conversation: the server tests it for presence     *)
(* only.                                                                   *)

MaxRedeliver == 1   \* message_received events delivered again, per client

SendTimeout == 3    \* setTimeout(..., 30000), in client ticks of 10 s

\* The events whose client handlers the model covers
ClientEvents == {"message_received", "message_sent", "error"}

\* socket.io delivery: each client's socket queues the events of a step it
\* receives, in emission order
Route(cl, evs) ==
    [cn \in ClientConns |->
        [cl[cn] EXCEPT !.inbox = @ \o
            SelectSeq(evs, LAMBDA e : e.ev \in ClientEvents /\ Receives(e, cn))]]

\* tempMessage of handleSendMessage: _id and messageId are the UUID
TempMessage(u, k) ==
    [_id |-> <<"uuid", k>>, messageId |-> k, sender |-> u, isPending |-> TRUE]

\* data.message of message_received: the saved document
SavedMessage(id) ==
    [_id |-> <<"oid", id>>, messageId |-> messages[id].messageId,
     sender |-> messages[id].sender, isPending |-> FALSE]

\* this.messages.findIndex(m => m.messageId === k || m._id === k), 0 for -1
FindIndex(list, k) ==
    LET hits == {i \in DOMAIN list :
                    list[i].messageId = k \/ list[i]._id = <<"uuid", k>>}
    IN IF hits = {} THEN 0 ELSE CHOOSE i \in hits : \A j \in hits : i <= j

\* updatePendingMessage(k, updated): document.querySelector finds the element
\* whose data-message-id (the _id of a listed message) is k
updatePendingMessage(list, k, updated) ==
    IF (\E i \in DOMAIN list : list[i]._id = <<"uuid", k>>)
       /\ FindIndex(list, k) # 0
    THEN [list EXCEPT ![FindIndex(list, k)] = updated]
    ELSE list

\* The test that never finds a key
SeenNever(dedup, key) == FALSE

\* this.messageDeduplication.has(messageKey)
Seen(dedup, key) == key \in dedup

\* socket.on('message_received'): a key seen before is dropped; a message of
\* somebody else is listed when its conversation is open and is then
\* acknowledged as read; a message of the user itself replaces its pending
\* copy
OnMessageReceived(c, cn, e) ==
    LET m == SavedMessage(e.mid)
        key == m.messageId
    IN IF Seen(c.messageDeduplication, key) THEN c
       ELSE IF m.sender # cn[1]
       THEN IF c.currentConversation = e.conv
            THEN [c EXCEPT !.messageDeduplication = @ \cup {key},
                           !.messages = Append(@, m),
                           !.reads = @ \cup {[ids |-> {e.mid}, pc |-> "rest"]}]
            ELSE [c EXCEPT !.messageDeduplication = @ \cup {key}]
       ELSE [c EXCEPT !.messageDeduplication = @ \cup {key},
                      !.messages = updatePendingMessage(@, key, m)]

\* socket.on('message_sent'): the pending copy with that messageId becomes
\* sent; then onMessageSent of the send with that messageId resolves its
\* promise and clears its timer
OnMessageSent(c, e) ==
    LET k == e.n
        hits == {i \in DOMAIN c.messages :
                    c.messages[i].messageId = k /\ c.messages[i].isPending}
        idx == CHOOSE i \in hits : \A j \in hits : i <= j
        marked == [c.messages EXCEPT ![idx].isPending = FALSE]
    IN [c EXCEPT
          !.messages = IF hits = {} THEN @
                       ELSE updatePendingMessage(marked, k, marked[idx]),
          !.sends = {IF s.key = k /\ s.state = "pending"
                     THEN [s EXCEPT !.state = "resolved"] ELSE s : s \in @}]

\* The catch after `await sendPromise` for the sends in F: the element is
\* removed and this.messages is filtered by msg._id !== messageId
FailSends(c, F) ==
    [c EXCEPT
       !.messages = SelectSeq(@, LAMBDA m :
                       \A s \in F : m._id # <<"uuid", s.key>>),
       !.sends = {IF s \in F THEN [s EXCEPT !.state = "rejected"] ELSE s
                  : s \in @}]

\* socket.on('error'): onError of every send still waiting rejects its
\* promise
OnError(c) == FailSends(c, {s \in c.sends : s.state = "pending"})

\* The client's part of every step
ClientStep(cl) ==
    /\ clients' = cl
    /\ out' = <<>>
    /\ UNCHANGED <<now, netVars, creates, online, chatVars, pipeVars>>

\* handleSendMessage with text in the input and the socket connected: the
\* local echo, the promise with its timer and listeners, socket.emit
ClientSend(cn, k) ==
    /\ cn \in sockets
    /\ clients[cn].currentConversation # 0
    /\ \A o \in ClientConns : \A s \in clients[o].sends : s.key # k
    /\ ClientStep([clients EXCEPT
          ![cn].messages = Append(@, TempMessage(cn[1], k)),
          ![cn].sends = @ \cup {[key |-> k, state |-> "pending",
                                 elapsed |-> 0]},
          ![cn].emitted = @ \cup {k}])

\* The server takes up a send_message a client emitted
ServeSend(cn, k) ==
    /\ k \in clients[cn].emitted
    /\ SendMessageHandler(cn[1], cn[2], cn[2],
                          clients[cn].currentConversation, "hi", k)
    /\ clients' = Route([clients EXCEPT ![cn].emitted = @ \ {k}], out')

\* The link and fan-out of a send, the events delivered to the clients
ServeLink(id) ==
    /\ SendLinkHandler(id)
    /\ clients' = Route(clients, out')

\* The next delivered event runs its handlers
ClientHandle(cn) ==
    /\ clients[cn].inbox # <<>>
    /\ LET e == Head(clients[cn].inbox)
           c == [clients[cn] EXCEPT !.inbox = Tail(@)]
       IN ClientStep([clients EXCEPT ![cn] =
             CASE e.ev = "message_received" -> OnMessageReceived(c, cn, e)
               [] e.ev = "message_sent" -> OnMessageSent(c, e)
               [] e.ev = "error" -> OnError(c)
               [] OTHER -> c])

\* Ten seconds pass at a client with a send waiting
ClientTick(cn) ==
    /\ \E s \in clients[cn].sends :
          s.state = "pending" /\ s.elapsed < SendTimeout
    /\ ClientStep([clients EXCEPT ![cn].sends =
          {IF s.state = "pending" /\ s.elapsed < SendTimeout
           THEN [s EXCEPT !.elapsed = @ + 1] ELSE s : s \in @}])

\* The timer fires whatever time has passed
TimerDueAtOnce(elapsed) == TRUE

\* setTimeout(() => reject(new Error('Message send timeout')), 30000)
TimerDue(elapsed) == elapsed >= SendTimeout

\* The timer of a waiting send fires: the promise rejects
ClientTimeout(cn, k) ==
    \E s \in clients[cn].sends :
        /\ s.key = k
        /\ s.state = "pending"
        /\ TimerDue(s.elapsed)
        /\ ClientStep([clients EXCEPT ![cn] = FailSends(@, {s})])

\* A message_received the room has carried before reaches a client again
Redeliver(cn, id) ==
    /\ id \in MsgIds
    /\ messages[id].stage # "link"
    /\ <<cn, messages[id].conversation>> \in rooms
    /\ clients[cn].redelivered < MaxRedeliver
    /\ ClientStep([clients EXCEPT
          ![cn].redelivered = @ + 1,
          ![cn].inbox = Append(@, Ev("message_received", "conv", "", "",
                                     messages[id].conversation, id, "", 0))])

\* markMessagesAsRead: the server handles its PUT /api/message/read; a 401
\* makes apiCall throw and the catch ends the call, any other answer lets
\* it go on
ServeRestRead(cn, r) ==
    /\ r \in clients[cn].reads
    /\ r.pc = "rest"
    /\ RestMarkReadHandler(cn[1], cn[2], r.ids)
    /\ clients' = [clients EXCEPT ![cn].reads =
          IF out'[1].n = 401 THEN @ \ {r}
          ELSE (@ \ {r}) \cup {[r EXCEPT !.pc = "socket"]}]

\* markMessagesAsRead: socket.emit('mark_messages_read') after the PUT, and
\* the server's handler of it
ServeSocketRead(cn, r) ==
    /\ r \in clients[cn].reads
    /\ r.pc = "socket"
    /\ MarkMessagesReadHandler(cn[1], cn[2], cn[2],
                               clients[cn].currentConversation, r.ids)
    /\ clients' = Route([clients EXCEPT ![cn].reads = @ \ {r}], out')

\* Sending and receiving in conversation 1: u1 sends from its first
\* session; the events are delivered to the three clients, delivered again
\* and handled
NextClient ==
    \/ \E k \in ClientKeys : ClientSend(<<"u1", "s1">>, k)
    \/ \E cn \in ClientConns, k \in ClientKeys : ServeSend(cn, k)
    \/ \E id \in MsgIds : ServeLink(id)
    \/ \E cn \in ClientConns : ClientHandle(cn)
    \/ \E cn \in ClientConns, id \in MsgIds : Redeliver(cn, id)

SpecClient == Init /\ [][NextClient]_vars

\* C31: client de-duplication.  In every reachable state of sends,
\* deliveries and redeliveries, no client lists two entries with one
\* idempotency key, and once a client has handled the message_received of a
\* key the entry it lists for that key is the persisted copy, not the
\* pending echo.
C31_ClientDeduplication ==
    \A cn \in ClientConns :
        LET list == clients[cn].messages
        IN /\ \A i, j \in DOMAIN list :
                 list[i].messageId = list[j].messageId => i = j
           /\ \A i \in DOMAIN list :
                 list[i].messageId \in clients[cn].messageDeduplication
                    => list[i]._id[1] = "oid" /\ ~list[i].isPending

\* C31 witness: both messages of u1 were delivered and one was delivered
\* again to the sender and to the recipient; every event is handled, the
\* recipient lists two entries and the sender lists the two persisted copies
C31_Witness ==
    /\ Len(messages) = 2
    /\ \A cn \in {<<"u1", "s1">>, <<"u2", "s1">>} :
          /\ clients[cn].redelivered = 1
          /\ clients[cn].inbox = <<>>
          /\ Len(clients[cn].messages) = 2
          /\ \A i \in DOMAIN clients[cn].messages :
                clients[cn].messages[i]._id[1] = "oid"

\* C39: multi-session consistency on the sender side.  Once another client
\* of the sender, with the conversation open, has handled the
\* message_received of a message, the message is in that client's list.
C39_SenderSessionsConsistent ==
    \A cn \in ClientConns, id \in MsgIds :
        ( /\ cn[1] = messages[id].sender
          /\ cn[2] # messages[id].sessionId
          /\ clients[cn].currentConversation = messages[id].conversation
          /\ messages[id].messageId \in clients[cn].messageDeduplication )
            => \E i \in DOMAIN clients[cn].messages :
                  clients[cn].messages[i]._id = <<"oid", id>>

----------------------------------------------------------------------------
(* The send timeout of the client *)

\* A step after newMessage.save() rejects and the error reaches the clients
ServeLinkFail(id) ==
    /\ SendLinkFail(id)
    /\ clients' = Route(clients, out')

\* The client that sends
TimeoutClient == <<"u1", "s1">>

\* u1 sends twice from its first session; the server takes the sends up,
\* links them or fails, early, late or never; the client handles what
\* reaches it while its timers run
NextTimeout ==
    \/ \E k \in ClientKeys : ClientSend(TimeoutClient, k)
    \/ \E k \in ClientKeys : ServeSend(TimeoutClient, k)
    \/ \E id \in MsgIds : ServeLink(id)
    \/ \E id \in MsgIds : ServeLinkFail(id)
    \/ ClientHandle(TimeoutClient)
    \/ ClientTick(TimeoutClient)
    \/ \E k \in ClientKeys : ClientTimeout(TimeoutClient, k)

SpecTimeout == Init /\ [][NextTimeout]_vars

\* The sends of client c with key k in state st
SendsIn(c, k, st) == {s \in c.sends : s.key = k /\ s.state = st}

\* Client c lists an entry with key k / lists the pending echo of k
Lists(c, k) == \E i \in DOMAIN c.messages : c.messages[i].messageId = k
ListsPending(c, k) ==
    \E i \in DOMAIN c.messages :
        c.messages[i].messageId = k /\ c.messages[i].isPending

----------------------------------------------------------------------------
(* Read acknowledgement end to end *)

\* u1 sends from its first session; the clients handle what reaches them;
\* the client of u2 lists the message and acknowledges it with
\* markMessagesAsRead
NextReceipt ==
    \/ \E k \in ClientKeys : ClientSend(<<"u1", "s1">>, k)
    \/ \E k \in ClientKeys : ServeSend(<<"u1", "s1">>, k)
    \/ \E id \in MsgIds : ServeLink(id)
    \/ \E cn \in ClientConns : ClientHandle(cn)
    \/ \E cn \in ClientConns : \E r \in clients[cn].reads :
          ServeRestRead(cn, r)
    \/ \E cn \in ClientConns : \E r \in clients[cn].reads :
          ServeSocketRead(cn, r)

SpecReceipt == Init /\ [][NextReceipt]_vars

\* A connection of user u receives a read event of the step about id
ReadEventReaches(evs, id, u) ==
    \E e \in Range(evs), o \in sockets :
        /\ \/ e.ev = "messages_read"
           \/ e.ev = "message_read_receipt" /\ e.mid = id
        /\ o[1] = u
        /\ Receives(e, o)

\* C35: end-to-end read receipt.  When the markMessagesAsRead of a
\* recipient's client for a message has run its PUT and its
\* mark_messages_read, a connection of the message's sender has received
\* messages_read or message_read_receipt for it.
C35_ReadReceiptReachesSender ==
    [][ \A cn \in ClientConns : \A r \in clients[cn].reads :
          ServeSocketRead(cn, r) =>
             \A id \in r.ids : ReadEventReaches(out', id, messages[id].sender)
      ]_vars

====
